---- MODULE Spec2Model ----
(***************************************************************************)
(* goodm: schema registry, validation and index reconciliation.            *)
(*                                                                         *)
(* Strings are sequences of characters.  A character written "a", "b", ... *)
(* or a longer word such as "email" stands for a run of characters none of *)
(* which is "_", and which as a whole is neither "1" nor "-1"; the         *)
(* characters "_", "1" and "-" are themselves.                             *)
(***************************************************************************)
EXTENDS Integers, Sequences, FiniteSets, TLC

VARIABLES
    \* canonical index names (compoundIndexName / buildIndexModel)
    nmPc, nmFields, nmName, nmKeys,
    \* the schema registry (registry.go: registry)
    registry,
    \* the document store: indexes and documents of each collection
    db, docs,
    \* index reconciliation (migrate.go, enforce.go): the running call
    mOp, mPc, opts, schemas, todo, plan, planErr, actionIdx, result, retErr,
    existing, items, cur,
    \* the store calls of the running call, the database it started from,
    \* the outcome of the call before it, the number of writing calls so far
    calls, dbAtCall, prev, nCalls,
    \* number of store calls that have failed in the running call
    failures,
    \* the goroutines that use the registry: where each one is, its call, its
    \* locals, what its call returned, and what it saw of rival registrations
    rPc, rOp, rLocal, rRet, rRival,
    \* registryMu: the goroutines that hold it for writing and for reading
    rwWriters, rwReaders,
    \* the registry as the last completed write left it, and the calls so far
    committed, rOps,
    \* validation: the schema, the instance, the errors returned
    vPc, vSchema, vModel, vErrs,
    \* applyDefaults: the schema, the model, the model as passed, the error
    dPc, dSchema, dModel, dBefore, dErr,
    \* Create, CreateMany, FindOne, Find: the running call, the models as
    \* passed and as they are now, the model the loop is at, the error
    \* returned, what the hooks, Validate and the driver were given, whether
    \* the model type is registered and has hooks, the documents of the
    \* collection, what a read returned, the number of calls so far
    cPc, cOp, cInput, cModels, cIdx, cErr, cSeen, cRegistered, cHooked,
    cStored, cFound, cCalls, cStoredAtCall,
    \* sampleDocuments: the collection, the sample size, the cursor, the
    \* trackers, the order of the names, the documents counted, the result
    sPc, sColl, sSampleSize, sCursor, sTrackers, sFieldOrder, sTotalDocs,
    sFields, sErr,
    \* resolveType: the observed types and the type returned
    rtPc, rtTypes, rtResult,
    \* ParseGoodmTag: the tag, its attributes, the tag with its tokens
    \* reordered or duplicated, the attributes of that one
    tPc, tTag, tFs, tTag2, tFs2,
    \* Register of a struct type: the model, the declared types, the calls
    \* of StructFields, the fields it returned, the schema, the error
    kPc, kModel, kDecls, kStack, kFields, kSchema, kErr,
    \* DetectDrift on its own: the schema, whether Find succeeded, the
    \* drifts returned, the documents at the call
    gPc, gSchema, gFindOk, gDrifts, gDocsAtCall,
    \* the context of the running call: whether it is cancelled, and what
    \* the run had done when it was
    ctxDone, ctxAt,
    \* middleware: globalMW, modelMW, what each registered function does,
    \* the running runMiddleware: its model name, the error of fn, the chain,
    \* the depth, the value being returned, the events so far
    wPc, globalMW, modelMW, wKinds, wModelName, wFnErr, wChain, wDepth, wRet, wTrace,
    \* Update: where the call stands, the caller's model, the documents of
    \* the collection now and when the call started, the steps run, the
    \* error returned, whether the schema has an immutable field, whether
    \* the model has hooks, the number of calls
    uPc, uModel, uStored, uStoredAtCall, uSteps, uErr, uImmutable, uHooked, uCalls

nmVars == <<nmPc, nmFields, nmName, nmKeys>>
storeVars == <<db, docs>>
migVars == <<mOp, mPc, opts, schemas, todo, plan, planErr, actionIdx, result,
             retErr, existing, items, cur, calls, dbAtCall, prev, nCalls,
             failures>>

regVars == <<rPc, rOp, rLocal, rRet, rRival, rwWriters, rwReaders, committed, rOps>>
valVars == <<vPc, vSchema, vModel, vErrs>>
defVars == <<dPc, dSchema, dModel, dBefore, dErr>>

\* the parts modelled first, and the parts modelled after them
coreVars == <<nmVars, registry, storeVars, migVars, regVars, valVars>>
crtVars == <<cPc, cOp, cInput, cModels, cIdx, cErr, cSeen, cRegistered, cHooked,
             cStored, cFound, cCalls, cStoredAtCall>>
rtVars == <<rtPc, rtTypes, rtResult>>
disVars == <<sPc, sColl, sSampleSize, sCursor, sTrackers, sFieldOrder,
             sTotalDocs, sFields, sErr, rtVars>>
tagVars == <<tPc, tTag, tFs, tTag2, tFs2>>
kVars == <<kPc, kModel, kDecls, kStack, kFields, kSchema, kErr>>
gVars == <<gPc, gSchema, gFindOk, gDrifts, gDocsAtCall>>
ctxVars == <<ctxDone, ctxAt>>
mwVars == <<wPc, globalMW, modelMW, wKinds, wModelName, wFnErr, wChain, wDepth, wRet, wTrace>>
updVars == <<uPc, uModel, uStored, uStoredAtCall, uSteps, uErr, uImmutable, uHooked, uCalls>>
laterVars == <<defVars, crtVars, disVars, tagVars, kVars, gVars, ctxVars, mwVars, updVars>>

\* everything outside index reconciliation
otherVars == <<nmVars, regVars, valVars, laterVars>>
\* everything outside the naming round trip
nmRest == <<registry, storeVars, migVars, regVars, valVars, laterVars>>
\* everything outside the registry and its goroutines
regRest == <<nmVars, storeVars, migVars, valVars, laterVars>>
\* everything outside validation
valRest == <<nmVars, registry, storeVars, migVars, regVars, laterVars>>
\* everything outside applyDefaults
defRest == <<coreVars, crtVars, disVars, tagVars, kVars, gVars, ctxVars, mwVars, updVars>>
\* everything outside Create, CreateMany, FindOne, Find
crtRest == <<coreVars, defVars, disVars, tagVars, kVars, gVars, ctxVars, mwVars, updVars>>
\* everything outside discovery
disRest == <<coreVars, defVars, crtVars, tagVars, kVars, gVars, ctxVars, mwVars, updVars>>
\* everything outside ParseGoodmTag
tagRest == <<coreVars, defVars, crtVars, disVars, kVars, gVars, ctxVars, mwVars, updVars>>
\* everything outside Register of a struct type
kRest == <<coreVars, defVars, crtVars, disVars, tagVars, gVars, ctxVars, mwVars, updVars>>
\* everything outside DetectDrift on its own
gRest == <<coreVars, defVars, crtVars, disVars, tagVars, kVars, ctxVars, mwVars, updVars>>
\* everything outside the context of the running call
ctxRest == <<coreVars, defVars, crtVars, disVars, tagVars, kVars, gVars, mwVars, updVars>>
\* everything outside middleware
mwRest == <<coreVars, defVars, crtVars, disVars, tagVars, kVars, gVars, ctxVars, updVars>>
\* everything outside Update
updRest == <<coreVars, defVars, crtVars, disVars, tagVars, kVars, gVars, ctxVars, mwVars>>

vars == <<coreVars, laterVars>>

(***************************************************************************)
(* Bounds of the model.                                                    *)
(***************************************************************************)
\* total number of characters over the field names of one compound index
MaxChars == 4
\* number of fields of one compound index
MaxFields == 2
\* number of calls in one run that may write to the store (Migrate,
\* ExecuteMigration, Enforce); PlanMigration only reads and is not counted
MaxCalls == 1
\* number of store calls that fail in one call
MaxFailures == 1
\* number of registry calls the goroutines make in one run
MaxOps == 3
\* number of elements of a slice of subdocuments
MaxItems == 1
\* number of documents of a sampled collection
MaxDocs == 2
\* number of models passed to one CreateMany
MaxModels == 2
\* number of Create, CreateMany, FindOne and Find calls in one run
MaxCrudCalls == 2
\* number of comma-separated tokens of one tag
MaxTokens == 2
\* number of fields a struct type declares
MaxStructFields == 2
\* number of calls of StructFields the stack of a goroutine holds
MaxStack == 3
\* number of top-level keys of a document DetectDrift samples
MaxDriftKeys == 2
\* number of middleware functions registered
MaxMiddleware == 3

(***************************************************************************)
(* Go strings: strings.Split(s, "_") and strings.Join(parts, "_").         *)
(***************************************************************************)
Chars == {"a", "1", "-", "_"}

\* strings.Split(s, "_"): the empty string splits into one empty token.
SplitUnderscore(s) ==
    LET F[i \in 0..Len(s)] ==
            IF i = 0 THEN << <<>> >>
            ELSE LET p == F[i - 1] IN
                 IF s[i] = "_" THEN Append(p, <<>>)
                 ELSE [p EXCEPT ![Len(p)] = Append(@, s[i])]
    IN F[Len(s)]

\* strings.Join(parts, "_"): no separator before the first part.
RECURSIVE JoinUnderscore(_)
JoinUnderscore(parts) ==
    IF Len(parts) = 0 THEN <<>>
    ELSE IF Len(parts) = 1 THEN parts[1]
    ELSE parts[1] \o <<"_">> \o JoinUnderscore(Tail(parts))

One == <<"1">>
MinusOne == <<"-", "1">>

(***************************************************************************)
(* compoundIndexName (enforce.go): f1_1_f2_1...                            *)
(***************************************************************************)
RECURSIVE NameParts(_)
NameParts(fields) ==
    IF Len(fields) = 0 THEN <<>>
    ELSE <<fields[1], One>> \o NameParts(Tail(fields))

compoundIndexName(ci) == JoinUnderscore(NameParts(ci.Fields))

(***************************************************************************)
(* buildIndexModel (migrate.go): the keys decoded from an index name.      *)
(***************************************************************************)
IsDirection(tok) == tok = One \/ tok = MinusOne

\* the inner loop: index of the first direction token at or after i,
\* Len(parts) + 1 when there is none
RECURSIVE ScanName(_, _)
ScanName(parts, i) ==
    IF i > Len(parts) THEN i
    ELSE IF IsDirection(parts[i]) THEN i
    ELSE ScanName(parts, i + 1)

\* a decoder that takes every token before a direction for a field name of
\* its own, as if names held no underscore
RECURSIVE DecodeFrom_NoUnderscore(_, _, _)
DecodeFrom_NoUnderscore(parts, i, keys) ==
    IF i > Len(parts) THEN keys
    ELSE IF IsDirection(parts[i]) THEN DecodeFrom_NoUnderscore(parts, i + 1, keys)
    ELSE IF parts[i] = <<>> THEN DecodeFrom_NoUnderscore(parts, i + 1, keys)
    ELSE DecodeFrom_NoUnderscore(parts, i + 1,
                                 Append(keys, [Key |-> parts[i], Value |-> 1]))

\* one pass of the outer loop, from position i, with the keys found so far
RECURSIVE DecodeFrom(_, _, _)
DecodeFrom(parts, i, keys) ==
    IF i > Len(parts) THEN keys
    ELSE LET j == ScanName(parts, i)
             nameParts == SubSeq(parts, i, j - 1)
             fieldName == JoinUnderscore(nameParts)
             direction == IF j <= Len(parts) /\ parts[j] = MinusOne THEN -1 ELSE 1
             next == IF j <= Len(parts) THEN j + 1 ELSE j
             keys2 == IF fieldName # <<>>
                      THEN Append(keys, [Key |-> fieldName, Value |-> direction])
                      ELSE keys
         IN DecodeFrom(parts, next, keys2)

buildIndexKeys(indexName) == DecodeFrom(SplitUnderscore(indexName), 1, <<>>)

(***************************************************************************)
(* Inputs of the naming round trip: lists of field names.                  *)
(***************************************************************************)
\* the field names written one after the other, "|" between two names
FieldWords ==
    UNION {[1..m -> Chars \cup {"|"}] : m \in 0..(MaxChars + MaxFields - 1)}

CountOf(w, c) == Cardinality({i \in 1..Len(w) : w[i] = c})

CutAtBars(w) ==
    LET F[i \in 0..Len(w)] ==
            IF i = 0 THEN << <<>> >>
            ELSE LET p == F[i - 1] IN
                 IF w[i] = "|" THEN Append(p, <<>>)
                 ELSE [p EXCEPT ![Len(p)] = Append(@, w[i])]
    IN F[Len(w)]

\* every list of at most MaxFields names with at most MaxChars characters in
\* all, the empty name included
FieldLists ==
    {<<>>} \cup
    {CutAtBars(w) : w \in {v \in FieldWords :
                              /\ CountOf(v, "|") < MaxFields
                              /\ Len(v) - CountOf(v, "|") <= MaxChars}}

NmInit ==
    /\ nmPc = "start"
    /\ nmFields \in FieldLists
    /\ nmName = <<>>
    /\ nmKeys = <<>>

\* name := compoundIndexName(CompoundIndex{Fields: fields})
NmEncode ==
    /\ nmPc = "start"
    /\ nmName' = compoundIndexName([Fields |-> nmFields, Unique |-> FALSE])
    /\ nmPc' = "encoded"
    /\ UNCHANGED <<nmFields, nmKeys, nmRest>>

\* model := buildIndexModel(name)
NmDecode ==
    /\ nmPc = "encoded"
    /\ nmKeys' = buildIndexKeys(nmName)
    /\ nmPc' = "decoded"
    /\ UNCHANGED <<nmFields, nmName, nmRest>>

NmNext == NmEncode \/ NmDecode


(***************************************************************************)
(* Schemas of the registered models (schema.go: Schema, FieldSchema;       *)
(* index.go: CompoundIndex).  Only the attributes that index               *)
(* reconciliation reads are kept here.                                     *)
(***************************************************************************)
Field(name, bson, unique, index) ==
    [Name |-> name, BSONName |-> bson, Unique |-> unique, Index |-> index]

\* model.go: the fields of the embedded Model
ModelFields ==
    << Field("ID", <<"_", "id">>, FALSE, FALSE),
       Field("CreatedAt", <<"created", "_", "at">>, FALSE, FALSE),
       Field("UpdatedAt", <<"updated", "_", "at">>, FALSE, FALSE),
       Field("Version", <<"_", "_", "v">>, FALSE, FALSE) >>

\* type User: Email `goodm:"unique,required"`, Name `goodm:"required"`
UserSchema ==
    [ModelName |-> "User", Collection |-> "users",
     Fields |-> ModelFields \o
                << Field("Email", <<"email">>, TRUE, FALSE),
                   Field("Name", <<"name">>, FALSE, FALSE) >>,
     CompoundIndexes |-> <<>>]

\* type Post: Email `goodm:"index"`, and Indexes() returning one unique
\* compound index on (author, status)
PostSchema ==
    [ModelName |-> "Post", Collection |-> "posts",
     Fields |-> ModelFields \o
                << Field("Title", <<"title">>, FALSE, FALSE),
                   Field("Email", <<"email">>, FALSE, TRUE) >>,
     CompoundIndexes |-> << [Fields |-> << <<"author">>, <<"status">> >>,
                             Unique |-> TRUE] >>]

ModelSchemas == {UserSchema, PostSchema}
ModelNames == {s.ModelName : s \in ModelSchemas}
SchemaNamed(n) == CHOOSE s \in ModelSchemas : s.ModelName = n
Colls == {s.Collection : s \in ModelSchemas}

\* GetAll: a copy of the registry map
GetAll == registry

(***************************************************************************)
(* The document store: list-indexes, create-index, drop-index, find.       *)
(***************************************************************************)
IdIndexName == <<"_", "id", "_">>

Ascending(fieldNames) ==
    [i \in 1..Len(fieldNames) |-> [Key |-> fieldNames[i], Value |-> 1]]

DirectionText(d) == IF d = -1 THEN MinusOne ELSE One

\* the name the store gives an index created without one: key_direction
\* pairs joined by underscores
RECURSIVE KeyParts(_)
KeyParts(keys) ==
    IF Len(keys) = 0 THEN <<>>
    ELSE <<keys[1].Key, DirectionText(keys[1].Value)>> \o KeyParts(Tail(keys))

GeneratedName(keys) == JoinUnderscore(KeyParts(keys))

IndexRec(name, keys, unique) == [name |-> name, keys |-> keys, unique |-> unique]

\* coll.Indexes().List: the names of the indexes of a collection
ListedNames(coll) == {ix.name : ix \in db[coll]}

\* whether the store accepts create-index(keys, unique) on coll
CreateAccepted(coll, keys, unique) ==
    /\ keys # <<>>
    /\ \A ix \in db[coll] :
          (ix.name = GeneratedName(keys) \/ ix.keys = keys)
              => ix = IndexRec(GeneratedName(keys), keys, unique)

\* the indexes of coll after an accepted create-index
AfterCreate(coll, keys, unique) ==
    db[coll] \cup {IndexRec(GeneratedName(keys), keys, unique)}

\* whether the store accepts drop-index(name) on coll
DropAccepted(coll, name) == name \in ListedNames(coll) /\ name # IdIndexName

AfterDrop(coll, name) == {ix \in db[coll] : ix.name # name}

(***************************************************************************)
(* DetectDrift (enforce.go): fields of sampled documents the schema lacks. *)
(***************************************************************************)
DriftSampleLimit == 100

Min2(a, b) == IF a < b THEN a ELSE b

\* the keys of the sampled documents, document after document
RECURSIVE FlattenKeys(_)
FlattenKeys(ds) ==
    IF Len(ds) = 0 THEN <<>> ELSE ds[1] \o FlattenKeys(Tail(ds))

\* every unknown key, as often as it is met
FirstUnknown_Repeats(keys, known, seen) ==
    SelectSeq(keys, LAMBDA k : k \notin known)

RECURSIVE FirstUnknown(_, _, _)
FirstUnknown(keys, known, seen) ==
    IF Len(keys) = 0 THEN <<>>
    ELSE IF keys[1] \notin known /\ keys[1] \notin seen
         THEN <<keys[1]>> \o FirstUnknown(Tail(keys), known, seen \cup {keys[1]})
         ELSE FirstUnknown(Tail(keys), known, seen)

\* findOk: whether coll.Find succeeded
DetectDrift(schema, findOk) ==
    IF ~findOk THEN <<>>
    ELSE LET all == docs[schema.Collection]
             sample == SubSeq(all, 1, Min2(Len(all), DriftSampleLimit))
             knownFields == {schema.Fields[i].BSONName : i \in 1..Len(schema.Fields)}
             names == FirstUnknown(FlattenKeys(sample), knownFields, {})
         IN [i \in 1..Len(names) |->
                [Collection |-> schema.Collection, Field |-> names[i],
                 Message |-> "field exists in database but not in schema"]]

(***************************************************************************)
(* PlanMigration (migrate.go).                                             *)
(***************************************************************************)
SingleIndexName(bson) == bson \o <<"_", "1">>

buildExpectedIndexes(schema) ==
    {SingleIndexName(schema.Fields[i].BSONName) :
        i \in {k \in 1..Len(schema.Fields) :
                  schema.Fields[k].Unique \/ schema.Fields[k].Index}}
    \cup {compoundIndexName(schema.CompoundIndexes[i]) :
            i \in 1..Len(schema.CompoundIndexes)}

\* the orders in which a range over a Go map may visit the set S
Orders(S) ==
    {q \in [1..Cardinality(S) -> S] : \A x \in S : \E i \in DOMAIN q : q[i] = x}

CreateAction(coll, name) ==
    [Type |-> "ActionCreateIndex", Collection |-> coll,
     Description |-> <<"Create index: ", name>>, IndexName |-> name]

DropAction(coll, name) ==
    [Type |-> "ActionDropIndex", Collection |-> coll,
     Description |-> <<"Drop index: ", name, " (not in schema)">>,
     IndexName |-> name]

DriftAction(coll, d) ==
    [Type |-> "ActionFieldDrift", Collection |-> coll,
     Description |-> <<"Extra field: ", d.Field>>, IndexName |-> <<>>]

\* a planner that creates every expected index, listed or not
ToCreate_IgnoringListing(schema, listed) ==
    buildExpectedIndexes(schema) \ {IdIndexName}

\* a planner that leaves the primary-key index in the listing
ToDrop_WithPrimaryKey(schema, listed) == listed \ buildExpectedIndexes(schema)

\* index names to create and to drop for one schema, given the listing
ToCreate(schema, listed) ==
    (buildExpectedIndexes(schema) \ {IdIndexName}) \ (listed \ {IdIndexName})

ToDrop(schema, listed) ==
    (listed \ {IdIndexName}) \ (buildExpectedIndexes(schema) \ {IdIndexName})

\* the actions one iteration of PlanMigration's loop appends for a schema
SchemaActions(schema, listed, createOrder, dropOrder, drifts) ==
    [i \in 1..Len(createOrder) |-> CreateAction(schema.Collection, createOrder[i])]
    \o [i \in 1..Len(dropOrder) |-> DropAction(schema.Collection, dropOrder[i])]
    \o [i \in 1..Len(drifts) |-> DriftAction(schema.Collection, drifts[i])]

EmptyResult == [Executed |-> 0, Skipped |-> 0, Warnings |-> <<>>, Errors |-> <<>>]
NoOpts == [DryRun |-> FALSE, DropExtras |-> FALSE, DriftPolicy |-> "DriftIgnore"]

(***************************************************************************)
(* Calls of the reconciliation API.  One caller issues them one after the  *)
(* other; each runs as a sequence of steps, one per loop iteration.        *)
(***************************************************************************)
\* a nil error
NoError == <<>>


CanCall == mPc = "idle" /\ nCalls < MaxCalls

\* the create and drop actions of a plan
Changes(p) ==
    {<<p[i].Type, p[i].Collection, p[i].IndexName>> :
        i \in {k \in 1..Len(p) : p[k].Type # "ActionFieldDrift"}}

\* what is remembered of a call once the next one starts
Outcome ==
    [op |-> mOp, err |-> retErr, opts |-> opts, errors |-> Len(result.Errors),
     changes |-> Changes(plan)]

NoCall ==
    [op |-> "none", err |-> NoError, opts |-> NoOpts, errors |-> 0, changes |-> {}]

\* the running call returns err
Return(err) ==
    /\ mPc' = "idle"
    /\ retErr' = err

\* a store call may fail for reasons of its own (network, timeout); n is 1
\* when the call at hand fails
Fails_IgnoringContext(n) == failures + n <= MaxFailures /\ failures' = failures + n

\* every store call made with a cancelled context fails, whatever their number
Fails(n) ==
    IF ctxDone
    THEN n = 1 /\ failures' = failures + 1
    ELSE failures + n <= MaxFailures /\ failures' = failures + n

B2N(b) == IF b THEN 1 ELSE 0

StartCall(op, o) ==
    /\ mPc = "idle"
    /\ ~ctxDone
    /\ mOp' = op
    /\ opts' = o
    /\ retErr' = NoError
    /\ result' = EmptyResult
    /\ actionIdx' = 1
    /\ existing' = {}
    /\ items' = <<>>
    /\ cur' = "none"
    /\ calls' = <<>>
    /\ dbAtCall' = db
    /\ nCalls' = IF op = "PlanMigration" THEN nCalls ELSE nCalls + 1
    /\ prev' = Outcome
    /\ failures' = 0
    /\ UNCHANGED <<registry, storeVars, otherVars>>

\* plan, err := PlanMigration(ctx, db, GetAll())
PlanMigrationCall ==
    /\ StartCall("PlanMigration", NoOpts)
    /\ schemas' = GetAll
    /\ todo' = DOMAIN GetAll
    /\ plan' = <<>>
    /\ planErr' = NoError
    /\ mPc' = "planning"

\* result, err := Migrate(ctx, db, o): schemas := GetAll(), then PlanMigration
MigrateCall(o) ==
    /\ CanCall
    /\ StartCall("Migrate", o)
    /\ schemas' = GetAll
    /\ todo' = DOMAIN GetAll
    /\ plan' = <<>>
    /\ planErr' = NoError
    /\ mPc' = "planning"

\* one iteration of PlanMigration's loop over the schemas, for the schema
\* registered as n; the range over the map visits the schemas in any order
PlanSchema(n) ==
    /\ mPc = "planning"
    /\ n \in todo
    /\ LET schema == schemas[n] IN
       \E listOk \in BOOLEAN :
          IF ~listOk
          THEN \* ListExistingIndexes failed: return plan, err
               /\ planErr' = <<"migration: failed to list indexes on ",
                               schema.Collection>>
               /\ Return(planErr')
               /\ Fails(1)
               /\ UNCHANGED <<plan, todo>>
          ELSE LET listed == ListedNames(schema.Collection) IN
               \E createOrder \in Orders(ToCreate(schema, listed)),
                  dropOrder \in Orders(ToDrop(schema, listed)),
                  findOk \in BOOLEAN :
                  /\ plan' = plan \o SchemaActions(schema, listed, createOrder,
                                                  dropOrder,
                                                  DetectDrift(schema, findOk))
                  /\ todo' = todo \ {n}
                  /\ Fails(B2N(~findOk))
                  /\ UNCHANGED <<planErr, mPc, retErr>>
    /\ UNCHANGED <<mOp, opts, schemas, actionIdx, result, existing, items,
                   cur, calls, dbAtCall, prev, nCalls, registry, db, docs,
                   otherVars>>

\* a dry-run result that counts the index changes only
DryRunResult_ChangesOnly(p) ==
    [Executed |-> 0, Skipped |-> Cardinality(Changes(p)),
     Warnings |-> << <<"Dry run - no changes applied">> >>, Errors |-> <<>>]

\* Migrate's result of a dry run over the plan p
DryRunResult(p) ==
    [Executed |-> 0, Skipped |-> Len(p),
     Warnings |-> << <<"Dry run - no changes applied">> >>, Errors |-> <<>>]

\* the loop of PlanMigration is over: PlanMigration returns plan, nil; inside
\* Migrate, a dry run returns here and anything else goes on to execute
PlanReturn ==
    /\ mPc = "planning"
    /\ todo = {}
    /\ IF mOp = "PlanMigration"
       THEN Return(NoError) /\ UNCHANGED <<result, actionIdx>>
       ELSE IF opts.DryRun
       THEN /\ result' = DryRunResult(plan)
            /\ Return(NoError)
            /\ UNCHANGED actionIdx
       ELSE /\ mPc' = "executing"
            /\ actionIdx' = 1
            /\ result' = EmptyResult
            /\ UNCHANGED retErr
    /\ UNCHANGED <<mOp, opts, schemas, todo, plan, planErr, existing, items,
                   cur, calls, dbAtCall, prev, nCalls, failures, registry,
                   db, docs, otherVars>>

\* result, err := ExecuteMigration(ctx, db, plan, o), with the plan of the
\* last PlanMigration
ExecuteMigrationCall(o) ==
    /\ CanCall
    /\ planErr = NoError
    /\ StartCall("ExecuteMigration", o)
    /\ mPc' = "executing"
    /\ UNCHANGED <<schemas, todo, plan, planErr>>

\* uniqueness read from the schemas the plan was made from
UniqueInRegistry_AtPlanTime(indexName) ==
    \E n \in DOMAIN schemas :
        \/ \E i \in 1..Len(schemas[n].Fields) :
              /\ schemas[n].Fields[i].Unique
              /\ indexName = SingleIndexName(schemas[n].Fields[i].BSONName)
        \/ \E i \in 1..Len(schemas[n].CompoundIndexes) :
              /\ schemas[n].CompoundIndexes[i].Unique
              /\ compoundIndexName(schemas[n].CompoundIndexes[i]) = indexName

\* buildIndexModel: whether the registry holds a unique field or a unique
\* compound index of that canonical name, in any schema
UniqueInRegistry(indexName) ==
    \E n \in DOMAIN GetAll :
        \/ \E i \in 1..Len(GetAll[n].Fields) :
              /\ GetAll[n].Fields[i].Unique
              /\ indexName = SingleIndexName(GetAll[n].Fields[i].BSONName)
        \/ \E i \in 1..Len(GetAll[n].CompoundIndexes) :
              /\ GetAll[n].CompoundIndexes[i].Unique
              /\ compoundIndexName(GetAll[n].CompoundIndexes[i]) = indexName

buildIndexModel(indexName) ==
    [Keys |-> buildIndexKeys(indexName), Unique |-> UniqueInRegistry(indexName)]

\* drops that run whatever the options say
DropsAllowed_Always(o) == TRUE

\* if !opts.DropExtras { ... continue }
DropsAllowed(o) == o.DropExtras

\* a failed store call that leaves no trace in the result
RecordError_Lost(res, description) == res

\* result.Errors = append(result.Errors, fmt.Errorf("%s: %w", ...))
RecordError(res, description) ==
    [res EXCEPT !.Errors = Append(@, <<description, ": ", "err">>)]

StoreCall(op, coll, name, ok) == [op |-> op, coll |-> coll, name |-> name, ok |-> ok]

\* one iteration of ExecuteMigration's loop over plan.Actions
ExecuteAction ==
    /\ mPc = "executing"
    /\ actionIdx <= Len(plan)
    /\ LET action == plan[actionIdx]
           coll == action.Collection
       IN
       CASE action.Type = "ActionCreateIndex" ->
              LET model == buildIndexModel(action.IndexName) IN
              \E ok \in BOOLEAN :
                 /\ ok => CreateAccepted(coll, model.Keys, model.Unique)
                 /\ Fails(B2N(~ok))
                 /\ calls' = Append(calls, StoreCall("CreateOne", coll,
                                                     action.IndexName, ok))
                 /\ IF ok
                    THEN /\ db' = [db EXCEPT ![coll] =
                                     AfterCreate(coll, model.Keys, model.Unique)]
                         /\ result' = [result EXCEPT !.Executed = @ + 1]
                    ELSE /\ db' = db
                         /\ result' = RecordError(result, action.Description)
         [] action.Type = "ActionDropIndex" ->
              IF ~DropsAllowed(opts)
              THEN /\ result' = [result EXCEPT
                                   !.Skipped = @ + 1,
                                   !.Warnings = Append(@,
                                       <<"Skipped drop: ", action.IndexName,
                                         " on ", coll,
                                         " (use --drop-extras to drop)">>)]
                   /\ UNCHANGED <<db, calls, failures>>
              ELSE \E ok \in BOOLEAN :
                      /\ ok => DropAccepted(coll, action.IndexName)
                      /\ Fails(B2N(~ok))
                      /\ calls' = Append(calls, StoreCall("DropOne", coll,
                                                          action.IndexName, ok))
                      /\ IF ok
                         THEN /\ db' = [db EXCEPT ![coll] =
                                          AfterDrop(coll, action.IndexName)]
                              /\ result' = [result EXCEPT !.Executed = @ + 1]
                         ELSE /\ db' = db
                              /\ result' = RecordError(result, action.Description)
         [] action.Type = "ActionFieldDrift" ->
              /\ result' = [result EXCEPT !.Warnings =
                              Append(@, <<coll, ": ", action.Description>>)]
              /\ UNCHANGED <<db, calls, failures>>
    /\ actionIdx' = actionIdx + 1
    /\ UNCHANGED <<mOp, mPc, opts, schemas, todo, plan, planErr, retErr,
                   existing, items, cur, dbAtCall, prev, nCalls,
                   registry, docs, otherVars>>

\* the loop is over: return result, nil
ExecuteReturn ==
    /\ mPc = "executing"
    /\ actionIdx > Len(plan)
    /\ Return(NoError)
    /\ UNCHANGED <<mOp, opts, schemas, todo, plan, planErr, actionIdx, result,
                   existing, items, cur, calls, dbAtCall, prev, nCalls,
                   failures, registry, db, docs, otherVars>>

(***************************************************************************)
(* Enforce and enforceSchema (enforce.go).                                 *)
(***************************************************************************)
DriftPolicies == {"DriftIgnore", "DriftWarn", "DriftFatal"}

EnforceItem(name, keys, unique, what) ==
    [name |-> name, keys |-> keys, unique |-> unique, what |-> what]

\* the indexes enforceSchema looks at, in its order: the unique or indexed
\* fields in declaration order, then the compound indexes
RECURSIVE FieldItems(_)
FieldItems(fields) ==
    IF Len(fields) = 0 THEN <<>>
    ELSE LET f == fields[1] IN
         (IF f.Unique
          THEN << EnforceItem(SingleIndexName(f.BSONName), Ascending(<<f.BSONName>>),
                              TRUE, "unique index") >>
          ELSE IF f.Index
          THEN << EnforceItem(SingleIndexName(f.BSONName), Ascending(<<f.BSONName>>),
                              FALSE, "index") >>
          ELSE <<>>)
         \o FieldItems(Tail(fields))

CompoundItems(cis) ==
    [i \in 1..Len(cis) |->
        EnforceItem(compoundIndexName(cis[i]), Ascending(cis[i].Fields),
                    cis[i].Unique, "compound index")]

SchemaItems(schema) == FieldItems(schema.Fields) \o CompoundItems(schema.CompoundIndexes)

EnforcementError(coll, msg) == <<"enforcement error on ", coll, ": ", msg>>

\* err := Enforce(ctx, db, EnforceOptions{DriftPolicy: policy})
EnforceCall(policy) ==
    /\ CanCall
    /\ StartCall("Enforce", [NoOpts EXCEPT !.DriftPolicy = policy])
    /\ schemas' = GetAll
    /\ todo' = DOMAIN GetAll
    /\ mPc' = "enforcing"
    /\ UNCHANGED <<plan, planErr>>

\* enforceSchema starts on the schema registered as n: list its indexes
EnforceList(n) ==
    /\ mPc = "enforcing"
    /\ n \in todo
    /\ \E listOk \in BOOLEAN :
          IF ~listOk
          THEN /\ Return(EnforcementError(schemas[n].Collection,
                                          "failed to list indexes"))
               /\ Fails(1)
               /\ UNCHANGED <<existing, items, todo, cur>>
          ELSE /\ existing' = ListedNames(schemas[n].Collection)
               /\ items' = SchemaItems(schemas[n])
               /\ todo' = todo \ {n}
               /\ cur' = n
               /\ mPc' = "enforceSchema"
               /\ UNCHANGED <<retErr, failures>>
    /\ UNCHANGED <<mOp, opts, schemas, plan, planErr, actionIdx, result,
                   calls, dbAtCall, prev, nCalls, registry, db, docs,
                   otherVars>>

\* one iteration of enforceSchema's loops: the next field or compound index
EnforceIndex ==
    /\ mPc = "enforceSchema"
    /\ items # <<>>
    /\ LET it == Head(items)
           coll == schemas[cur].Collection
       IN
       IF it.name \in existing
       THEN /\ items' = Tail(items)
            /\ UNCHANGED <<db, calls, mPc, retErr, failures>>
       ELSE \E ok \in BOOLEAN :
               /\ ok => CreateAccepted(coll, it.keys, it.unique)
               /\ Fails(B2N(~ok))
               /\ calls' = Append(calls, StoreCall("CreateOne", coll, it.name, ok))
               /\ IF ok
                  THEN /\ db' = [db EXCEPT ![coll] =
                                   AfterCreate(coll, it.keys, it.unique)]
                       /\ items' = Tail(items)
                       /\ UNCHANGED <<mPc, retErr>>
                  ELSE /\ Return(EnforcementError(coll,
                                     <<"failed to create ", it.what, it.name>>))
                       /\ UNCHANGED <<db, items>>
    /\ UNCHANGED <<mOp, opts, schemas, todo, plan, planErr, actionIdx, result,
                   existing, cur, dbAtCall, prev, nCalls, registry, docs,
                   otherVars>>

\* enforceSchema returned nil: the drift policy, then the next schema
EnforceDrift ==
    /\ mPc = "enforceSchema"
    /\ items = <<>>
    /\ IF opts.DriftPolicy = "DriftIgnore"
       THEN mPc' = "enforcing" /\ UNCHANGED <<retErr, failures>>
       ELSE \E findOk \in BOOLEAN :
               LET drifts == DetectDrift(schemas[cur], findOk) IN
               /\ Fails(B2N(~findOk))
               /\ IF Len(drifts) > 0 /\ opts.DriftPolicy = "DriftFatal"
                  THEN Return(EnforcementError(schemas[cur].Collection,
                                               <<"schema drift detected: ", drifts>>))
                  ELSE mPc' = "enforcing" /\ UNCHANGED retErr
    /\ UNCHANGED <<mOp, opts, schemas, todo, plan, planErr, actionIdx, result,
                   existing, items, cur, calls, dbAtCall, prev, nCalls,
                   registry, db, docs, otherVars>>

\* the loop over the schemas is over: return nil
EnforceReturn ==
    /\ mPc = "enforcing"
    /\ todo = {}
    /\ Return(NoError)
    /\ UNCHANGED <<mOp, opts, schemas, todo, plan, planErr, actionIdx, result,
                   existing, items, cur, calls, dbAtCall, prev, nCalls,
                   failures, registry, db, docs, otherVars>>

(***************************************************************************)
(* The databases a run may start from.                                     *)
(***************************************************************************)
IdIndex == IndexRec(IdIndexName, Ascending(<< <<"_", "id">> >>), TRUE)

\* besides _id_, each collection may hold any of these, one per name
StartIndexes(coll) ==
    IF coll = "users"
    THEN {IndexRec(SingleIndexName(<<"email">>), Ascending(<< <<"email">> >>), TRUE),
          IndexRec(SingleIndexName(<<"email">>), Ascending(<< <<"email">> >>), FALSE),
          IndexRec(SingleIndexName(<<"legacy">>), Ascending(<< <<"legacy">> >>), FALSE)}
    ELSE {IndexRec(SingleIndexName(<<"email">>), Ascending(<< <<"email">> >>), FALSE),
          IndexRec(<<"author", "_", "1", "_", "status", "_", "1">>,
                   Ascending(<< <<"author">>, <<"status">> >>), TRUE)}

OneIndexPerName(S) == \A a, b \in S : a.name = b.name => a = b

StartDatabases ==
    {d \in [Colls -> SUBSET (UNION {StartIndexes(c) : c \in Colls} \cup {IdIndex})] :
        \A c \in Colls : /\ IdIndex \in d[c]
                          /\ d[c] \subseteq StartIndexes(c) \cup {IdIndex}
                          /\ OneIndexPerName(d[c])}

\* the documents of each collection: their top-level keys
StartDocuments ==
    {[c \in Colls |-> IF c = "users"
                      THEN << << <<"_", "id">>, <<"email">>, <<"nick">> >>,
                              << <<"_", "id">>, <<"nick">>, <<"age">> >> >>
                      ELSE <<>>]}

StartRegistries == {[n \in S |-> SchemaNamed(n)] : S \in SUBSET ModelNames}

\* type Address: Line1 `bson:"line_1" goodm:"index"`, PostCode
\* `bson:"post_code" goodm:"index"`
AddressSchema ==
    [ModelName |-> "Address", Collection |-> "addresses",
     Fields |-> ModelFields \o
                << Field("Line1", <<"line", "_", "1">>, FALSE, TRUE),
                   Field("PostCode", <<"post", "_", "code">>, FALSE, TRUE) >>,
     CompoundIndexes |-> <<>>]

\* the schemas of a program that also has addresses
NumberedSchemas == {UserSchema, AddressSchema}
NumberedNames == {s.ModelName : s \in NumberedSchemas}
NumberedColls == {s.Collection : s \in NumberedSchemas}

NumberedRegistries ==
    {[n \in S |-> CHOOSE s \in NumberedSchemas : s.ModelName = n] :
        S \in SUBSET NumberedNames}

\* users as before; addresses may hold an index no schema asks for
NumberedDatabases ==
    {d \in [NumberedColls ->
               SUBSET (StartIndexes("users") \cup {IdIndex})] :
        /\ IdIndex \in d["users"]
        /\ OneIndexPerName(d["users"])
        /\ IdIndex \in d["addresses"]
        /\ d["addresses"] \subseteq
              {IdIndex, IndexRec(SingleIndexName(<<"legacy">>),
                                 Ascending(<< <<"legacy">> >>), FALSE)}}

MigIdle ==
    /\ mOp = "none"
    /\ mPc = "idle"
    /\ opts = NoOpts
    /\ schemas = <<>>
    /\ todo = {}
    /\ plan = <<>>
    /\ planErr = <<"no plan">>
    /\ actionIdx = 1
    /\ result = EmptyResult
    /\ retErr = NoError
    /\ existing = {}
    /\ items = <<>>
    /\ cur = "none"
    /\ calls = <<>>
    /\ prev = NoCall
    /\ nCalls = 0
    /\ failures = 0
    /\ dbAtCall = db

MigInit ==
    /\ registry \in StartRegistries
    /\ db \in StartDatabases
    /\ docs \in StartDocuments
    /\ MigIdle

NmIdle ==
    /\ nmPc = "off"
    /\ nmFields = <<>>
    /\ nmName = <<>>
    /\ nmKeys = <<>>

StoreIdle ==
    /\ registry = <<>>
    /\ db = [c \in Colls |-> {}]
    /\ docs = [c \in Colls |-> <<>>]

MigNext ==
    \/ PlanMigrationCall
    \/ \E o \in [DryRun : BOOLEAN, DropExtras : BOOLEAN, DriftPolicy : {"DriftIgnore"}] :
          MigrateCall(o)
    \/ \E n \in ModelNames : PlanSchema(n)
    \/ PlanReturn
    \/ \E o \in [DryRun : {FALSE}, DropExtras : BOOLEAN, DriftPolicy : {"DriftIgnore"}] :
          ExecuteMigrationCall(o)
    \/ ExecuteAction
    \/ ExecuteReturn

\* Register called by the program while reconciliation is under way: the
\* registry gains the schema of a model (registry.go: registry[name] = schema)
RegisterLate(n) ==
    /\ n \notin DOMAIN registry
    /\ registry' = [m \in DOMAIN registry \cup {n} |-> SchemaNamed(m)]
    /\ UNCHANGED <<storeVars, migVars, otherVars>>

LiveNext == MigNext \/ \E n \in ModelNames : RegisterLate(n)

\* what the run had done when its context was cancelled
Progress ==
    [failures |-> failures, db |-> db, errors |-> Len(result.Errors),
     calls |-> Len(calls), actionIdx |-> actionIdx]

NotCancelled ==
    [failures |-> 0, db |-> <<>>, errors |-> 0, calls |-> 0, actionIdx |-> 1]

CtxIdle == ctxDone = FALSE /\ ctxAt = NotCancelled

\* the caller cancels ctx while ExecuteMigration or Enforce is running
Cancel ==
    /\ mPc \in {"executing", "enforcing", "enforceSchema"}
    /\ ~ctxDone
    /\ ctxDone' = TRUE
    /\ ctxAt' = Progress
    /\ UNCHANGED ctxRest

EnfNext ==
    \/ \E p \in DriftPolicies : EnforceCall(p)
    \/ \E n \in ModelNames : EnforceList(n)
    \/ EnforceIndex
    \/ EnforceDrift
    \/ EnforceReturn

(***************************************************************************)
(* The schema registry (registry.go): registryMu, registry, Register, Get, *)
(* GetAll, and unregisterTestModels of the tests, called from goroutines   *)
(* that run concurrently.  Every goroutine is at one place of one call;    *)
(* a step is one statement of one goroutine.                               *)
(***************************************************************************)
\* the goroutines of TestRace_RegistryReadWrite: writers register and
\* unregister, readers call Get and GetAll
Writers == {"w1", "w2"}
Readers == {"r1"}
Goroutines == Writers \cup Readers

\* the model names of the tests, in the order unregisterTestModels deletes
RegNameOrder == <<"testUser", "testProfile">>
RegNames == {RegNameOrder[i] : i \in 1..Len(RegNameOrder)}

\* sync.RWMutex: Lock waits for every holder, RLock for the writer
CanLock_Unguarded(writers, readers) == TRUE

CanLock(writers, readers) == writers = {} /\ readers = {}

CanRLock(writers) == writers = {}

\* _, exists := registry[name]
Exists_Never(reg, name) == FALSE

Exists(reg, name) == name \in DOMAIN reg

\* registry[name] = schema
Put(reg, name, schema) ==
    [k \in DOMAIN reg \cup {name} |-> IF k = name THEN schema ELSE reg[k]]

\* delete(registry, name)
Delete(reg, name) == [k \in DOMAIN reg \ {name} |-> reg[k]]

\* s, ok := registry[name]
Lookup(reg, name) ==
    IF name \in DOMAIN reg THEN [s |-> <<reg[name]>>, ok |-> TRUE]
    ELSE [s |-> <<>>, ok |-> FALSE]

\* fmt.Errorf("goodm: model %q is already registered", name)
AlreadyRegistered(name) == <<"goodm: model \"", name, "\" is already registered">>

\* schema := &Schema{...}: a new instance each call; id tells instances apart
NewSchema(name, id) ==
    [ModelName |-> name, Collection |-> <<"test", "_", name>>, id |-> id]

NoOp == [kind |-> "none", name |-> "none"]

\* what a call returned: its error, and its values if it returns any
Ret(err, val) == [err |-> err, val |-> val]
Pending == Ret(<<"pending">>, <<>>)

InRegister(g, name) ==
    /\ rOp[g] = [kind |-> "Register", name |-> name]
    /\ rPc[g] \in {"reg_lock", "reg_check", "reg_insert", "reg_unlock"}

\* goroutine g starts a call
Begin(g, kind, name, pc) ==
    /\ rPc[g] = "idle"
    /\ rOps < MaxOps
    /\ rOps' = rOps + 1
    /\ rOp' = [rOp EXCEPT ![g] = [kind |-> kind, name |-> name]]
    /\ rPc' = [rPc EXCEPT ![g] = pc]
    /\ rRet' = [rRet EXCEPT ![g] = Pending]
    /\ rRival' = [rRival EXCEPT ![g] = "none"]

\* Register(model, collection): the schema is built before the lock
RegisterCall(g, name) ==
    /\ Begin(g, "Register", name, "reg_lock")
    /\ rLocal' = [rLocal EXCEPT ![g] = NewSchema(name, rOps + 1)]
    /\ UNCHANGED <<registry, rwWriters, rwReaders, committed, regRest>>

\* registryMu.Lock()
RegLock(g) ==
    /\ rPc[g] = "reg_lock"
    /\ CanLock(rwWriters, rwReaders)
    /\ rwWriters' = rwWriters \cup {g}
    /\ rPc' = [rPc EXCEPT ![g] = "reg_check"]
    /\ UNCHANGED <<registry, rOp, rLocal, rRet, rRival, rwReaders, committed,
                   rOps, regRest>>

\* if _, exists := registry[schema.ModelName]; exists { Unlock; return err }
RegCheck(g) ==
    /\ rPc[g] = "reg_check"
    /\ IF Exists(registry, rOp[g].name)
       THEN /\ rwWriters' = rwWriters \ {g}
            /\ committed' = registry
            /\ rRet' = [rRet EXCEPT ![g] = Ret(AlreadyRegistered(rOp[g].name), <<>>)]
            /\ rPc' = [rPc EXCEPT ![g] = "idle"]
       ELSE /\ rPc' = [rPc EXCEPT ![g] = "reg_insert"]
            /\ UNCHANGED <<rwWriters, committed, rRet>>
    /\ UNCHANGED <<registry, rOp, rLocal, rRival, rwReaders, rOps, regRest>>

\* registry[schema.ModelName] = schema
RegInsert(g) ==
    /\ rPc[g] = "reg_insert"
    /\ registry' = Put(registry, rOp[g].name, rLocal[g])
    /\ rPc' = [rPc EXCEPT ![g] = "reg_unlock"]
    /\ UNCHANGED <<rOp, rLocal, rRet, rRival, rwWriters, rwReaders, committed,
                   rOps, regRest>>

\* registryMu.Unlock(); return nil.  Every Register of the same name still
\* under way has now seen a rival succeed.
RegUnlock(g) ==
    /\ rPc[g] = "reg_unlock"
    /\ rwWriters' = rwWriters \ {g}
    /\ committed' = registry
    /\ rRet' = [rRet EXCEPT ![g] = Ret(NoError, <<>>)]
    /\ rPc' = [rPc EXCEPT ![g] = "idle"]
    /\ rRival' = [h \in Goroutines |->
                    IF h # g /\ InRegister(h, rOp[g].name) THEN "won"
                    ELSE rRival[h]]
    /\ UNCHANGED <<registry, rOp, rLocal, rwReaders, rOps, regRest>>

\* unregisterTestModels()
UnregisterCall(g) ==
    /\ Begin(g, "unregister", "none", "un_lock")
    /\ rLocal' = [rLocal EXCEPT ![g] = <<>>]
    /\ UNCHANGED <<registry, rwWriters, rwReaders, committed, regRest>>

\* registryMu.Lock()
UnLock(g) ==
    /\ rPc[g] = "un_lock"
    /\ CanLock(rwWriters, rwReaders)
    /\ rwWriters' = rwWriters \cup {g}
    /\ rLocal' = [rLocal EXCEPT ![g] = RegNameOrder]
    /\ rPc' = [rPc EXCEPT ![g] = "un_delete"]
    /\ UNCHANGED <<registry, rOp, rRet, rRival, rwReaders, committed, rOps,
                   regRest>>

\* the next delete(registry, name).  A Register of that name under way whose
\* rival had won sees the rival's entry go.
UnDelete(g) ==
    /\ rPc[g] = "un_delete"
    /\ rLocal[g] # <<>>
    /\ LET name == Head(rLocal[g]) IN
       /\ registry' = Delete(registry, name)
       /\ rRival' = [h \in Goroutines |->
                       IF /\ InRegister(h, name)
                          /\ rRival[h] = "won"
                          /\ name \in DOMAIN registry
                       THEN "removed" ELSE rRival[h]]
    /\ rLocal' = [rLocal EXCEPT ![g] = Tail(@)]
    /\ UNCHANGED <<rPc, rOp, rRet, rwWriters, rwReaders, committed, rOps,
                   regRest>>

\* registryMu.Unlock()
UnUnlock(g) ==
    /\ rPc[g] = "un_delete"
    /\ rLocal[g] = <<>>
    /\ rwWriters' = rwWriters \ {g}
    /\ committed' = registry
    /\ rRet' = [rRet EXCEPT ![g] = Ret(NoError, <<>>)]
    /\ rPc' = [rPc EXCEPT ![g] = "idle"]
    /\ UNCHANGED <<registry, rOp, rLocal, rRival, rwReaders, rOps, regRest>>

\* Get(name)
GetCall(g, name) ==
    /\ Begin(g, "Get", name, "get_lock")
    /\ rLocal' = [rLocal EXCEPT ![g] = <<>>]
    /\ UNCHANGED <<registry, rwWriters, rwReaders, committed, regRest>>

\* registryMu.RLock()
GetLock(g) ==
    /\ rPc[g] = "get_lock"
    /\ CanRLock(rwWriters)
    /\ rwReaders' = rwReaders \cup {g}
    /\ rPc' = [rPc EXCEPT ![g] = "get_read"]
    /\ UNCHANGED <<registry, rOp, rLocal, rRet, rRival, rwWriters, committed,
                   rOps, regRest>>

\* s, ok := registry[name]
GetRead(g) ==
    /\ rPc[g] = "get_read"
    /\ rLocal' = [rLocal EXCEPT ![g] = Lookup(registry, rOp[g].name)]
    /\ rPc' = [rPc EXCEPT ![g] = "get_unlock"]
    /\ UNCHANGED <<registry, rOp, rRet, rRival, rwWriters, rwReaders,
                   committed, rOps, regRest>>

\* return s, ok, and the deferred registryMu.RUnlock()
GetReturn(g) ==
    /\ rPc[g] = "get_unlock"
    /\ rwReaders' = rwReaders \ {g}
    /\ rRet' = [rRet EXCEPT ![g] = Ret(NoError, <<rLocal[g]>>)]
    /\ rPc' = [rPc EXCEPT ![g] = "idle"]
    /\ UNCHANGED <<registry, rOp, rLocal, rRival, rwWriters, committed, rOps,
                   regRest>>

\* GetAll()
GetAllCall(g) ==
    /\ Begin(g, "GetAll", "none", "ga_lock")
    /\ rLocal' = [rLocal EXCEPT ![g] = <<>>]
    /\ UNCHANGED <<registry, rwWriters, rwReaders, committed, regRest>>

\* registryMu.RLock(); result := make(map[string]*Schema, len(registry))
GaLock(g) ==
    /\ rPc[g] = "ga_lock"
    /\ CanRLock(rwWriters)
    /\ rwReaders' = rwReaders \cup {g}
    /\ rLocal' = [rLocal EXCEPT ![g] = <<>>]
    /\ rPc' = [rPc EXCEPT ![g] = "ga_copy"]
    /\ UNCHANGED <<registry, rOp, rRet, rRival, rwWriters, committed, rOps,
                   regRest>>

\* the keys the range over registry has still to visit
ToCopy(g) == DOMAIN registry \ DOMAIN rLocal[g]

\* result[k] = v, for the next key of the range, in any order
GaCopy(g, k) ==
    /\ rPc[g] = "ga_copy"
    /\ k \in ToCopy(g)
    /\ rLocal' = [rLocal EXCEPT ![g] = Put(@, k, registry[k])]
    /\ UNCHANGED <<registry, rPc, rOp, rRet, rRival, rwWriters, rwReaders,
                   committed, rOps, regRest>>

\* return result, and the deferred registryMu.RUnlock()
GaReturn(g) ==
    /\ rPc[g] = "ga_copy"
    /\ ToCopy(g) = {}
    /\ rwReaders' = rwReaders \ {g}
    /\ rRet' = [rRet EXCEPT ![g] = Ret(NoError, <<rLocal[g]>>)]
    /\ rPc' = [rPc EXCEPT ![g] = "idle"]
    /\ UNCHANGED <<registry, rOp, rLocal, rRival, rwWriters, committed, rOps,
                   regRest>>

RegIdle ==
    /\ rPc = [g \in Goroutines |-> "idle"]
    /\ rOp = [g \in Goroutines |-> NoOp]
    /\ rLocal = [g \in Goroutines |-> <<>>]
    /\ rRet = [g \in Goroutines |-> Pending]
    /\ rRival = [g \in Goroutines |-> "none"]
    /\ rwWriters = {}
    /\ rwReaders = {}
    /\ committed = <<>>
    /\ rOps = 0

RegNext ==
    \/ \E g \in Writers, name \in RegNames : RegisterCall(g, name)
    \/ \E g \in Writers : RegLock(g)
    \/ \E g \in Writers : RegCheck(g)
    \/ \E g \in Writers : RegInsert(g)
    \/ \E g \in Writers : RegUnlock(g)
    \/ \E g \in Writers : UnregisterCall(g)
    \/ \E g \in Writers : UnLock(g)
    \/ \E g \in Writers : UnDelete(g)
    \/ \E g \in Writers : UnUnlock(g)
    \/ \E g \in Readers, name \in RegNames : GetCall(g, name)
    \/ \E g \in Readers : GetLock(g)
    \/ \E g \in Readers : GetRead(g)
    \/ \E g \in Readers : GetReturn(g)
    \/ \E g \in Readers : GetAllCall(g)
    \/ \E g \in Readers : GaLock(g)
    \/ \E g \in Readers, k \in RegNames : GaCopy(g, k)
    \/ \E g \in Readers : GaReturn(g)

(***************************************************************************)
(* Validate (validate.go).  A value is what reflect shows of it: its kind  *)
(* and its content.  A float64 is held in halves: h stands for h / 2.      *)
(***************************************************************************)
StringVal(s) == [kind |-> "string", s |-> s]
IntVal(n) == [kind |-> "int", n |-> n]
FloatVal(h) == [kind |-> "float64", h |-> h]
StructVal(fields) == [kind |-> "struct", fields |-> fields]
NilPtr == [kind |-> "ptr", isNil |-> TRUE]
PtrTo(v) == [kind |-> "ptr", isNil |-> FALSE, elem |-> v]
NilSlice == [kind |-> "slice", isNil |-> TRUE, elems |-> <<>>]
SliceOf(elems) == [kind |-> "slice", isNil |-> FALSE, elems |-> elems]

\* reflect.Value.IsZero
RECURSIVE IsZero(_)
IsZero(fv) ==
    CASE fv.kind = "string" -> fv.s = <<>>
      [] fv.kind = "int" -> fv.n = 0
      [] fv.kind = "int8" -> fv.n = 0
      [] fv.kind = "bool" -> ~fv.b
      [] fv.kind = "float64" -> fv.h = 0
      [] fv.kind = "ptr" -> fv.isNil
      [] fv.kind = "slice" -> fv.isNil
      [] fv.kind = "struct" -> \A name \in DOMAIN fv.fields : IsZero(fv.fields[name])

\* a division that rounds towards zero, as Go's conversion of a float to int
TruncDiv(a, b) == IF a >= 0 THEN a \div b ELSE -((-a) \div b)

\* toInt: int(v.Int()), int(v.Float()); no integer for any other kind
toInt(fv) ==
    CASE fv.kind \in {"int", "int8"} -> [n |-> fv.n, ok |-> TRUE]
      [] fv.kind = "float64" -> [n |-> TruncDiv(fv.h, 2), ok |-> TRUE]
      [] OTHER -> [n |-> 0, ok |-> FALSE]

\* the decimal digits of a natural number
DigitChars == <<"0", "1", "2", "3", "4", "5", "6", "7", "8", "9">>

RECURSIVE DecimalText(_)
DecimalText(n) ==
    IF n < 0 THEN <<"-">> \o DecimalText(-n)
    ELSE IF n < 10 THEN <<DigitChars[n + 1]>>
    ELSE DecimalText(n \div 10) \o <<DigitChars[(n % 10) + 1]>>

\* stringValue: the string itself, or fmt.Sprintf("%v", ...) of a number
stringValue(fv) ==
    CASE fv.kind = "string" -> fv.s
      [] fv.kind = "int" -> DecimalText(fv.n)
      [] fv.kind = "float64" ->
            IF fv.h % 2 = 0 THEN DecimalText(TruncDiv(fv.h, 2))
            ELSE (IF fv.h < 0 THEN <<"-">> ELSE <<>>)
                 \o DecimalText(TruncDiv(IF fv.h < 0 THEN -fv.h ELSE fv.h, 2))
                 \o <<".", "5">>
      [] OTHER -> <<"%v">>

\* a FieldSchema of the validation tree; Min and Max are <<>> for nil
VField(name, bson, required, enum, min, max, subFields, isSlice) ==
    [Name |-> name, BSONName |-> bson, Required |-> required, Enum |-> enum,
     Min |-> min, Max |-> max, SubFields |-> subFields, IsSlice |-> isSlice]

ValidationError(field, message) == [Field |-> field, Message |-> message]

\* fieldPath: pathPrefix + "." + fs.BSONName, or fs.BSONName at the top
FieldPath(pathPrefix, bson) ==
    IF pathPrefix # <<>> THEN pathPrefix \o <<".", bson>> ELSE <<bson>>

\* elements numbered from 1
ElemPath_OneBased(fieldPath, i) == fieldPath \o <<"[">> \o DecimalText(i + 1) \o <<"]">>

\* fmt.Sprintf("%s[%d]", fieldPath, i)
ElemPath(fieldPath, i) == fieldPath \o <<"[">> \o DecimalText(i) \o <<"]">>

RequiredErrors(fs, fv, fieldPath) ==
    IF fs.Required /\ IsZero(fv)
    THEN << ValidationError(fieldPath, <<"field is required">>) >>
    ELSE <<>>

EnumErrors(fs, fv, fieldPath) ==
    IF Len(fs.Enum) > 0 /\ ~IsZero(fv)
          /\ ~\E i \in 1..Len(fs.Enum) : stringValue(fv) = fs.Enum[i]
    THEN << ValidationError(fieldPath,
               <<"value \"", stringValue(fv), "\" is not in enum ", fs.Enum>>) >>
    ELSE <<>>

\* the minimum applied to a zero value too
MinErrors_ZeroChecked(fs, fv, fieldPath) ==
    IF fs.Min # <<>>
    THEN IF fv.kind = "string"
         THEN IF Len(fv.s) < fs.Min[1]
              THEN << ValidationError(fieldPath,
                         <<"length ", Len(fv.s), " is less than minimum ", fs.Min[1]>>) >>
              ELSE <<>>
         ELSE IF toInt(fv).ok /\ toInt(fv).n < fs.Min[1]
              THEN << ValidationError(fieldPath,
                         <<"value ", toInt(fv).n, " is less than minimum ", fs.Min[1]>>) >>
              ELSE <<>>
    ELSE <<>>

MinErrors(fs, fv, fieldPath) ==
    IF fs.Min # <<>> /\ ~IsZero(fv)
    THEN IF fv.kind = "string"
         THEN IF Len(fv.s) < fs.Min[1]
              THEN << ValidationError(fieldPath,
                         <<"length ", Len(fv.s), " is less than minimum ", fs.Min[1]>>) >>
              ELSE <<>>
         ELSE IF toInt(fv).ok /\ toInt(fv).n < fs.Min[1]
              THEN << ValidationError(fieldPath,
                         <<"value ", toInt(fv).n, " is less than minimum ", fs.Min[1]>>) >>
              ELSE <<>>
    ELSE <<>>

MaxErrors(fs, fv, fieldPath) ==
    IF fs.Max # <<>> /\ ~IsZero(fv)
    THEN IF fv.kind = "string"
         THEN IF Len(fv.s) > fs.Max[1]
              THEN << ValidationError(fieldPath,
                         <<"length ", Len(fv.s), " exceeds maximum ", fs.Max[1]>>) >>
              ELSE <<>>
         ELSE IF toInt(fv).ok /\ toInt(fv).n > fs.Max[1]
              THEN << ValidationError(fieldPath,
                         <<"value ", toInt(fv).n, " exceeds maximum ", fs.Max[1]>>) >>
              ELSE <<>>
    ELSE <<>>

\* validateFields: the errors of the fields, in order, each field's own
\* checks before those of its subdocuments
RECURSIVE validateFields(_, _, _)
RECURSIVE ValidateField(_, _, _)
RECURSIVE ValidateElems(_, _, _, _)
validateFields(v, fields, pathPrefix) ==
    IF Len(fields) = 0 THEN <<>>
    ELSE ValidateField(v, fields[1], pathPrefix)
         \o validateFields(v, Tail(fields), pathPrefix)

\* an iteration that also skips a struct that is the zero value
ValidateField_SkipsZeroStruct(v, fs, pathPrefix) ==
    IF fs.Name \notin DOMAIN v.fields THEN <<>>
    ELSE LET fv == v.fields[fs.Name]
             fieldPath == FieldPath(pathPrefix, fs.BSONName)
         IN RequiredErrors(fs, fv, fieldPath)
            \o EnumErrors(fs, fv, fieldPath)
            \o MinErrors(fs, fv, fieldPath)
            \o MaxErrors(fs, fv, fieldPath)
            \o (IF Len(fs.SubFields) = 0 THEN <<>>
                ELSE IF fs.IsSlice
                THEN ValidateElems(fv.elems, 0, fs.SubFields, fieldPath)
                ELSE IF fv.kind = "ptr"
                THEN IF fv.isNil THEN <<>>
                     ELSE validateFields(fv.elem, fs.SubFields, fieldPath)
                ELSE IF IsZero(fv) THEN <<>>
                ELSE validateFields(fv, fs.SubFields, fieldPath))

\* one iteration of the loop over the fields
ValidateField(v, fs, pathPrefix) ==
    IF fs.Name \notin DOMAIN v.fields THEN <<>>
    ELSE LET fv == v.fields[fs.Name]
             fieldPath == FieldPath(pathPrefix, fs.BSONName)
         IN RequiredErrors(fs, fv, fieldPath)
            \o EnumErrors(fs, fv, fieldPath)
            \o MinErrors(fs, fv, fieldPath)
            \o MaxErrors(fs, fv, fieldPath)
            \o (IF Len(fs.SubFields) = 0 THEN <<>>
                ELSE IF fs.IsSlice
                THEN ValidateElems(fv.elems, 0, fs.SubFields, fieldPath)
                ELSE IF fv.kind = "ptr"
                THEN IF fv.isNil THEN <<>>
                     ELSE validateFields(fv.elem, fs.SubFields, fieldPath)
                ELSE validateFields(fv, fs.SubFields, fieldPath))

\* the loop over the elements of a slice of subdocuments, from index i
ValidateElems(elems, i, subFields, fieldPath) ==
    IF i >= Len(elems) THEN <<>>
    ELSE LET elemVal == elems[i + 1] IN
         (IF elemVal.kind = "ptr"
          THEN IF elemVal.isNil THEN <<>>
               ELSE validateFields(elemVal.elem, subFields, ElemPath(fieldPath, i))
          ELSE validateFields(elemVal, subFields, ElemPath(fieldPath, i)))
         \o ValidateElems(elems, i + 1, subFields, fieldPath)

\* Validate(model, schema): a pointer to the model is followed first
Validate(model, schema) ==
    validateFields(IF model.kind = "ptr" THEN model.elem ELSE model,
                   schema.Fields, <<>>)

(***************************************************************************)
(* The schemas and instances validation is tried on.                       *)
(***************************************************************************)
NoEnum == <<>>
NoBound == <<>>
Leaf == <<>>

\* type Account: Email `goodm:"unique,required"`, Age `goodm:"min=13,max=120"`
AccountSchema ==
    [ModelName |-> "Account",
     Fields |-> << VField("Email", "email", TRUE, NoEnum, NoBound, NoBound, Leaf, FALSE),
                   VField("Age", "age", FALSE, NoEnum, <<13>>, <<120>>, Leaf, FALSE) >>]

AccountInstances ==
    {StructVal([Email |-> StringVal(e), Age |-> IntVal(a)]) :
        e \in {<<>>, <<"x">>}, a \in {0, 5, 50, 200}}

\* type Item: Name `goodm:"required"`, Qty `goodm:"min=1"`
ItemFields ==
    << VField("Name", "name", TRUE, NoEnum, NoBound, NoBound, Leaf, FALSE),
       VField("Qty", "qty", FALSE, NoEnum, <<1>>, NoBound, Leaf, FALSE) >>

\* type Address: City `goodm:"required"`
AddressFields ==
    << VField("City", "city", TRUE, NoEnum, NoBound, NoBound, Leaf, FALSE) >>

\* type Order: Status `goodm:"enum=open|paid"`, Rating float64
\* `goodm:"min=1,max=5"`, Code `goodm:"min=2,max=3"`, Address Address,
\* Items []*Item, Owner *Address `goodm:"required"`
OrderSchema ==
    [ModelName |-> "Order",
     Fields |-> << VField("Status", "status", FALSE, << <<"open">>, <<"paid">> >>,
                          NoBound, NoBound, Leaf, FALSE),
                   VField("Rating", "rating", FALSE, NoEnum, <<1>>, <<5>>, Leaf, FALSE),
                   VField("Code", "code", FALSE, NoEnum, <<2>>, <<3>>, Leaf, FALSE),
                   VField("Address", "address", FALSE, NoEnum, NoBound, NoBound,
                          AddressFields, FALSE),
                   VField("Items", "items", FALSE, NoEnum, NoBound, NoBound,
                          ItemFields, TRUE),
                   VField("Owner", "owner", TRUE, NoEnum, NoBound, NoBound,
                          AddressFields, FALSE) >>]

Cities == {<<>>, <<"x">>}
Addresses == {StructVal([City |-> StringVal(c)]) : c \in Cities}

ItemElems ==
    {NilPtr} \cup
    {PtrTo(StructVal([Name |-> StringVal(n), Qty |-> IntVal(q)])) :
        n \in {<<>>, <<"x">>}, q \in {-1, 0, 3}}

ItemSlices ==
    {NilSlice} \cup UNION {{SliceOf(q) : q \in [1..k -> ItemElems]} : k \in 1..MaxItems}

OrderInstances ==
    {StructVal([Status |-> StringVal(s), Rating |-> FloatVal(r), Code |-> StringVal(c),
                Address |-> a, Items |-> it, Owner |-> o]) :
        s \in {<<>>, <<"open">>, <<"void">>},
        r \in {0, 1, 4, 11},
        c \in {<<>>, <<"9">>, <<"9", "9">>, <<"9", "9", "9", "9">>},
        a \in Addresses,
        it \in ItemSlices,
        o \in {NilPtr} \cup {PtrTo(x) : x \in Addresses}}

\* type Inner: Value `bson:"value" goodm:"required"`
InnerFields ==
    << VField("Value", "value", TRUE, NoEnum, NoBound, NoBound, Leaf, FALSE) >>

\* type Outer: Inner Inner `bson:"inner"`
OuterFields ==
    << VField("Inner", "inner", FALSE, NoEnum, NoBound, NoBound, InnerFields, FALSE) >>

\* type Root: Outers []Outer `bson:"outers"`, the schema built by hand
RootSchema ==
    [ModelName |-> "Root",
     Fields |-> << VField("Outers", "outers", FALSE, NoEnum, NoBound, NoBound,
                          OuterFields, TRUE) >>]

OuterElems ==
    {StructVal([Inner |-> StructVal([Value |-> StringVal(x)])]) : x \in Cities}

RootInstances ==
    {StructVal([Outers |-> NilSlice])}
    \cup UNION {{StructVal([Outers |-> SliceOf(q)]) : q \in [1..k -> OuterElems]} :
                    k \in 1..(MaxItems + 1)}

ValInputs ==
    {[schema |-> AccountSchema, model |-> m] : m \in AccountInstances}
    \cup {[schema |-> OrderSchema, model |-> PtrTo(m)] : m \in OrderInstances}
    \cup {[schema |-> RootSchema, model |-> PtrTo(m)] : m \in RootInstances}

ValInit ==
    /\ vPc = "start"
    /\ \E in \in ValInputs : vSchema = in.schema /\ vModel = in.model
    /\ vErrs = <<>>

\* errs := Validate(model, schema)
ValidateCall ==
    /\ vPc = "start"
    /\ vErrs' = Validate(vModel, vSchema)
    /\ vPc' = "validated"
    /\ UNCHANGED <<vSchema, vModel, valRest>>

ValIdle ==
    /\ vPc = "off"
    /\ vSchema = <<>>
    /\ vModel = <<>>
    /\ vErrs = <<>>

ValNext == ValidateCall

(***************************************************************************)
(* applyDefaults (defaults.go).  A default is the text of the tag; the     *)
(* text of a number or of a boolean is written character by character.     *)
(***************************************************************************)
BoolVal(b) == [kind |-> "bool", b |-> b]
Int8Val(n) == [kind |-> "int8", n |-> n]

IsDigit(c) == \E i \in 1..Len(DigitChars) : DigitChars[i] = c
DigitValue(c) == (CHOOSE i \in 1..Len(DigitChars) : DigitChars[i] = c) - 1

\* the value of a run of decimal digits
RECURSIVE DigitsValue(_)
DigitsValue(s) ==
    IF Len(s) = 0 THEN 0
    ELSE 10 * DigitsValue(SubSeq(s, 1, Len(s) - 1)) + DigitValue(s[Len(s)])

AllDigits(s) == Len(s) > 0 /\ \A i \in 1..Len(s) : IsDigit(s[i])

HasSign(s) == Len(s) > 0 /\ s[1] \in {"+", "-"}
Unsigned(s) == IF HasSign(s) THEN Tail(s) ELSE s
Signed(s, n) == IF Len(s) > 0 /\ s[1] = "-" THEN -n ELSE n

\* strconv.ParseInt(s, 10, 64): an optional sign, then decimal digits
ParseInt(s) ==
    IF AllDigits(Unsigned(s))
    THEN [ok |-> TRUE, n |-> Signed(s, DigitsValue(Unsigned(s)))]
    ELSE [ok |-> FALSE, n |-> 0]

\* strconv.ParseBool
ParseBool(s) ==
    IF s \in {<<"1">>, <<"t">>, <<"T">>, <<"T", "R", "U", "E">>,
              <<"t", "r", "u", "e">>, <<"T", "r", "u", "e">>}
    THEN [ok |-> TRUE, b |-> TRUE]
    ELSE IF s \in {<<"0">>, <<"f">>, <<"F">>, <<"F", "A", "L", "S", "E">>,
                   <<"f", "a", "l", "s", "e">>, <<"F", "a", "l", "s", "e">>}
    THEN [ok |-> TRUE, b |-> FALSE]
    ELSE [ok |-> FALSE, b |-> FALSE]

\* where the decimal point of s is, 0 for none
PointAt(s) ==
    IF \E i \in 1..Len(s) : s[i] = "."
    THEN CHOOSE i \in 1..Len(s) : s[i] = "." /\ \A j \in 1..(i - 1) : s[j] # "."
    ELSE 0

\* strconv.ParseFloat(s, 64) on decimal text with at most one digit, 0 or
\* 5, after the point; the value in halves
ParseFloat(s) ==
    LET u == Unsigned(s)
        p == PointAt(u)
        whole == IF p = 0 THEN u ELSE SubSeq(u, 1, p - 1)
        frac == IF p = 0 THEN <<>> ELSE SubSeq(u, p + 1, Len(u))
    IN IF AllDigits(whole) /\ frac \in {<<>>, <<"0">>, <<"5">>}
       THEN [ok |-> TRUE,
             h |-> Signed(s, 2 * DigitsValue(whole)
                             + (IF frac = <<"5">> THEN 1 ELSE 0))]
       ELSE [ok |-> FALSE, h |-> 0]

\* reflect.Value.SetInt on an int8: the low eight bits of n, signed
ToInt8(n) == ((n + 128) % 256) - 128

ParseError(s) == <<"invalid syntax", s>>
UnsupportedType(kind) == <<"unsupported type", kind>>

\* setFieldFromString: the value set and the error
setFieldFromString(fv, s) ==
    CASE fv.kind = "string" -> [val |-> StringVal(s), err |-> NoError]
      [] fv.kind = "bool" ->
            IF ParseBool(s).ok
            THEN [val |-> BoolVal(ParseBool(s).b), err |-> NoError]
            ELSE [val |-> fv, err |-> ParseError(s)]
      [] fv.kind = "int" ->
            IF ParseInt(s).ok
            THEN [val |-> IntVal(ParseInt(s).n), err |-> NoError]
            ELSE [val |-> fv, err |-> ParseError(s)]
      [] fv.kind = "int8" ->
            IF ParseInt(s).ok
            THEN [val |-> Int8Val(ToInt8(ParseInt(s).n)), err |-> NoError]
            ELSE [val |-> fv, err |-> ParseError(s)]
      [] fv.kind = "float64" ->
            IF ParseFloat(s).ok
            THEN [val |-> FloatVal(ParseFloat(s).h), err |-> NoError]
            ELSE [val |-> fv, err |-> ParseError(s)]
      [] OTHER -> [val |-> fv, err |-> UnsupportedType(fv.kind)]

\* a FieldSchema as applyDefaults reads it
DField(name, default, subFields, isSlice) ==
    [Name |-> name, Default |-> default, SubFields |-> subFields,
     IsSlice |-> isSlice]

DefaultError(field, err) ==
    <<"goodm: cannot apply default ", field.Default, " to field ", field.Name, err>>

\* the field set to its default wherever the default applies
DefaultSets_NonZeroToo(field, fv) == field.Default # <<>>

\* if field.Default != "" && fv.IsZero()
DefaultSets(field, fv) == field.Default # <<>> /\ IsZero(fv)

\* applyFieldDefaults: the struct as the call leaves it, and the error
RECURSIVE applyFieldDefaults(_, _)
RECURSIVE ApplyFieldDefault(_, _)
RECURSIVE ApplyElemDefaults(_, _, _)
applyFieldDefaults(v, fields) ==
    IF Len(fields) = 0 THEN [v |-> v, err |-> NoError]
    ELSE LET one == ApplyFieldDefault(v, fields[1])
         IN IF one.err # NoError THEN one
            ELSE applyFieldDefaults(one.v, Tail(fields))

\* one iteration of the loop over the fields
ApplyFieldDefault(v, field) ==
    IF field.Name \notin DOMAIN v.fields THEN [v |-> v, err |-> NoError]
    ELSE LET fv == v.fields[field.Name]
             set == IF DefaultSets(field, fv)
                    THEN setFieldFromString(fv, field.Default)
                    ELSE [val |-> fv, err |-> NoError]
             with(x) == [v EXCEPT !.fields[field.Name] = x]
         IN IF set.err # NoError
            THEN [v |-> v, err |-> DefaultError(field, set.err)]
            ELSE IF Len(field.SubFields) = 0
            THEN [v |-> with(set.val), err |-> NoError]
            ELSE IF field.IsSlice
            THEN LET r == ApplyElemDefaults(set.val.elems, 0, field.SubFields)
                 IN [v |-> with([set.val EXCEPT !.elems = r.elems]), err |-> r.err]
            ELSE IF set.val.kind = "ptr"
            THEN IF set.val.isNil THEN [v |-> with(set.val), err |-> NoError]
                 ELSE LET r == applyFieldDefaults(set.val.elem, field.SubFields)
                      IN [v |-> with(PtrTo(r.v)), err |-> r.err]
            ELSE LET r == applyFieldDefaults(set.val, field.SubFields)
                 IN [v |-> with(r.v), err |-> r.err]

\* the loop over the elements of a slice of subdocuments, from index i
ApplyElemDefaults(elems, i, subFields) ==
    IF i >= Len(elems) THEN [elems |-> elems, err |-> NoError]
    ELSE LET elemVal == elems[i + 1]
             r == IF elemVal.kind = "ptr"
                  THEN IF elemVal.isNil THEN [v |-> elemVal, err |-> NoError]
                       ELSE LET in == applyFieldDefaults(elemVal.elem, subFields)
                            IN [v |-> PtrTo(in.v), err |-> in.err]
                  ELSE applyFieldDefaults(elemVal, subFields)
             now == [elems EXCEPT ![i + 1] = r.v]
         IN IF r.err # NoError THEN [elems |-> now, err |-> r.err]
            ELSE ApplyElemDefaults(now, i + 1, subFields)

\* an applyDefaults that hands the model back untouched when it fails
applyDefaults_RollsBack(model, schema) ==
    IF model.kind = "ptr"
    THEN LET r == applyFieldDefaults(model.elem, schema.Fields)
         IN IF r.err # NoError THEN [model |-> model, err |-> r.err]
            ELSE [model |-> PtrTo(r.v), err |-> r.err]
    ELSE [model |-> model, err |-> NoError]

\* applyDefaults(model, schema): a pointer to the model is followed first;
\* !fv.CanSet() skips every field of a model that is not addressable
applyDefaults(model, schema) ==
    IF model.kind = "ptr"
    THEN LET r == applyFieldDefaults(model.elem, schema.Fields)
         IN [model |-> PtrTo(r.v), err |-> r.err]
    ELSE \* a struct passed by value: no field can be set, every one is skipped
         [model |-> model, err |-> NoError]

(***************************************************************************)
(* The schemas and instances applyDefaults is tried on.                    *)
(***************************************************************************)
AgeDefaults == {<<"1", "8">>, <<"-", "5">>, <<"n", "o">>}
ScoreDefaults == {<<"9", ".", "5">>, <<"x">>}
ActiveDefaults == {<<"t", "r", "u", "e">>, <<"y", "e", "s">>}
LevelDefaults == {<<>>, <<"7">>, <<"3", "0", "0">>}

\* type testDefaults, and a field Level int8; the defaults vary
DefaultsSchemas ==
    {[ModelName |-> "testDefaults",
      Fields |-> << DField("Name", <<"anonymous">>, Leaf, FALSE),
                    DField("Age", age, Leaf, FALSE),
                    DField("Score", score, Leaf, FALSE),
                    DField("Active", active, Leaf, FALSE),
                    DField("Level", level, Leaf, FALSE),
                    DField("NoDefault", <<>>, Leaf, FALSE) >>] :
        age \in AgeDefaults, score \in ScoreDefaults,
        active \in ActiveDefaults, level \in LevelDefaults}

DefaultsInstances ==
    {StructVal([Name |-> StringVal(n), Age |-> IntVal(a), Score |-> FloatVal(s),
                Active |-> BoolVal(b), Level |-> Int8Val(l),
                NoDefault |-> StringVal(x)]) :
        n \in {<<>>, <<"Alice">>}, a \in {0, 30}, s \in {0, 3},
        b \in BOOLEAN, l \in {0, 7}, x \in {<<>>, <<"x">>}}

QtyDefaults == {<<"1">>, <<"o", "n", "e">>}
MetaDefaults == {<<>>, <<"m">>}

\* type Container: Items []Item with Status `default=pending` and a Qty,
\* Address with Zip `default=00000`, Billing *Address, and a struct Meta
\* that may carry a default itself
ContainerSchemas ==
    {[ModelName |-> "Container",
      Fields |-> << DField("Items", <<>>,
                           << DField("Status", <<"pending">>, Leaf, FALSE),
                              DField("Qty", qty, Leaf, FALSE) >>, TRUE),
                    DField("Address", <<>>,
                           << DField("Zip", <<"00000">>, Leaf, FALSE) >>, FALSE),
                    DField("Billing", <<>>,
                           << DField("Zip", <<"00000">>, Leaf, FALSE) >>, FALSE),
                    DField("Meta", meta,
                           << DField("Tag", <<>>, Leaf, FALSE) >>, FALSE) >>] :
        qty \in QtyDefaults, meta \in MetaDefaults}

DefItemElems ==
    {StructVal([Status |-> StringVal(s), Qty |-> IntVal(q)]) :
        s \in {<<>>, <<"done">>}, q \in {0, 2}}

DefItemSlices ==
    {NilSlice}
    \cup UNION {{SliceOf(q) : q \in [1..k -> DefItemElems]} : k \in 1..(MaxItems + 1)}

ZipStructs == {StructVal([Zip |-> StringVal(z)]) : z \in {<<>>, <<"12345">>}}

ContainerInstances ==
    {StructVal([Items |-> it, Address |-> a, Billing |-> b,
                Meta |-> StructVal([Tag |-> StringVal(t)])]) :
        it \in DefItemSlices, a \in ZipStructs,
        b \in {NilPtr, PtrTo(StructVal([Zip |-> StringVal(<<>>)]))},
        t \in {<<>>, <<"t">>}}

\* a model is passed by pointer; testDefaults is passed by value too
DefInputs ==
    {[schema |-> s, model |-> PtrTo(m)] : s \in DefaultsSchemas, m \in DefaultsInstances}
    \cup {[schema |-> s, model |-> PtrTo(m)] :
            s \in ContainerSchemas, m \in ContainerInstances}
    \cup {[schema |-> s, model |-> m] :
            s \in DefaultsSchemas,
            m \in {x \in DefaultsInstances : \A name \in DOMAIN x.fields :
                                                  IsZero(x.fields[name])}}

DefInit ==
    /\ dPc = "start"
    /\ \E in \in DefInputs :
          dSchema = in.schema /\ dModel = in.model /\ dBefore = in.model
    /\ dErr = NoError

\* err := applyDefaults(model, schema)
ApplyDefaultsCall ==
    /\ dPc = "start"
    /\ dModel' = applyDefaults(dModel, dSchema).model
    /\ dErr' = applyDefaults(dModel, dSchema).err
    /\ dPc' = "done"
    /\ UNCHANGED <<dSchema, dBefore, defRest>>

DefIdle ==
    /\ dPc = "off"
    /\ dSchema = <<>>
    /\ dModel = <<>>
    /\ dBefore = <<>>
    /\ dErr = NoError

DefNext == ApplyDefaultsCall

(***************************************************************************)
(* Create, CreateMany, FindOne, Find (crud.go, bulk.go).  No middleware is *)
(* registered and a database is connected.  An ObjectID and a time are     *)
(* numbers, zero for the zero value.                                       *)
(***************************************************************************)
\* a FieldSchema with what Validate and applyDefaults read of it
CField(name, bson, required, enum, default) ==
    [Name |-> name, BSONName |-> bson, Required |-> required, Enum |-> enum,
     Min |-> NoBound, Max |-> NoBound, SubFields |-> Leaf, IsSlice |-> FALSE,
     Default |-> default]

\* type testUser: the inline Model, Email `goodm:"unique,required"`,
\* Role `goodm:"enum=admin|user,default=user"`
CrudUserSchema ==
    [ModelName |-> "testUser", Collection |-> "test_users",
     Fields |-> << CField("ID", "_id", FALSE, NoEnum, <<>>),
                   CField("CreatedAt", "created_at", FALSE, NoEnum, <<>>),
                   CField("UpdatedAt", "updated_at", FALSE, NoEnum, <<>>),
                   CField("Email", "email", TRUE, NoEnum, <<>>),
                   CField("Role", "role", FALSE, << <<"admin">>, <<"user">> >>,
                          <<"user">>) >>]

CrudUser(id, email, role) ==
    StructVal([ID |-> IntVal(id), CreatedAt |-> IntVal(0), UpdatedAt |-> IntVal(0),
               Email |-> StringVal(email), Role |-> StringVal(role)])

CrudUsers ==
    {CrudUser(id, e, r) : id \in {0, 7}, e \in {<<>>, <<"e">>},
                          r \in {<<>>, <<"admin">>, <<"root">>}}

CrudBatches == UNION {[1..k -> CrudUsers] : k \in 1..MaxModels}

\* the document the driver writes for a model: one key per field
ToDocument(m, schema) ==
    [b \in {schema.Fields[k].BSONName : k \in 1..Len(schema.Fields)} |->
        m.fields[schema.Fields[CHOOSE k \in 1..Len(schema.Fields) :
                                  schema.Fields[k].BSONName = b].Name]]

\* a document written by another program, without the key role
LegacyDocument ==
    [b \in {"_id", "created_at", "updated_at", "email"} |->
        IF b = "email" THEN StringVal(<<"old">>) ELSE IntVal(3)]

\* Decode into a zero model: the keys of the document, field by field
Decode(doc, schema) ==
    StructVal([name \in {schema.Fields[k].Name : k \in 1..Len(schema.Fields)} |->
        LET fs == CHOOSE f \in {schema.Fields[k] : k \in 1..Len(schema.Fields)} :
                      f.Name = name
        IN IF fs.BSONName \in DOMAIN doc THEN doc[fs.BSONName]
           ELSE CrudUser(0, <<>>, <<>>).fields[name]])

\* bson.NewObjectID() for the model at idx: an id that no stored document
\* and no other model has
NewObjectID(stored, idx) == 10 + Len(stored) + idx

\* time.Now()
Now == 1

\* setModelID if the ID is zero, then setTimestamps
Prepared(m, id) ==
    [m EXCEPT !.fields.ID = IF @.n = 0 THEN IntVal(id) ELSE @,
              !.fields.CreatedAt = IF @.n = 0 THEN IntVal(Now) ELSE @,
              !.fields.UpdatedAt = IntVal(Now)]

NotRegistered(name) == <<"goodm: model is not registered", name>>
ErrNotFound == <<"goodm: document not found">>
HookFailed == <<"hook failed">>
InsertFailed == <<"goodm: insert failed">>
ValidationErrors(errs) == <<"validation failed", errs>>

\* the model at idx as a hook, Validate or the driver is given it
Seen(step, idx, m) == [step |-> step, idx |-> idx, model |-> m]

CrudReturn(err) ==
    /\ cPc' = "idle"
    /\ cErr' = err

\* Create(ctx, model): getSchemaForModel, runMiddleware, getDB
CreateCall(m) ==
    /\ cPc = "idle"
    /\ cCalls < MaxCrudCalls
    /\ cCalls' = cCalls + 1
    /\ cOp' = "Create"
    /\ cInput' = <<m>>
    /\ cSeen' = <<>>
    /\ cIdx' = 1
    /\ cModels' = <<m>>
    /\ IF cRegistered THEN cPc' = "prepare" /\ cErr' = NoError
       ELSE CrudReturn(NotRegistered("testUser"))
    /\ cStoredAtCall' = cStored
    /\ UNCHANGED <<cRegistered, cHooked, cStored, cFound, crtRest>>

\* CreateMany(ctx, models): an empty slice returns nil at once
CreateManyCall(ms) ==
    /\ cPc = "idle"
    /\ cCalls < MaxCrudCalls
    /\ cCalls' = cCalls + 1
    /\ cOp' = "CreateMany"
    /\ cInput' = ms
    /\ cSeen' = <<>>
    /\ cIdx' = 1
    /\ cModels' = ms
    /\ IF Len(ms) = 0 THEN CrudReturn(NoError)
       ELSE IF cRegistered THEN cPc' = "prepare" /\ cErr' = NoError
       ELSE CrudReturn(NotRegistered("testUser"))
    /\ cStoredAtCall' = cStored
    /\ UNCHANGED <<cRegistered, cHooked, cStored, cFound, crtRest>>

\* set the ID if zero, set the timestamps
CreatePrepare ==
    /\ cPc = "prepare"
    /\ cModels' = [cModels EXCEPT
                      ![cIdx] = Prepared(@, NewObjectID(cStored, cIdx))]
    /\ cPc' = "hook"
    /\ UNCHANGED <<cOp, cInput, cIdx, cErr, cSeen, cRegistered, cHooked,
                   cStored, cFound, cCalls, cStoredAtCall,
                   crtRest>>

\* the BeforeCreate hook of a model that has one; the hook may fail
CreateBeforeHook ==
    /\ cPc = "hook"
    /\ IF cHooked
       THEN /\ cSeen' = Append(cSeen, Seen("BeforeCreate", cIdx, cModels[cIdx]))
            /\ \E fails \in BOOLEAN :
                  IF fails THEN CrudReturn(HookFailed)
                  ELSE cPc' = "validate" /\ cErr' = cErr
       ELSE cSeen' = cSeen /\ cPc' = "validate" /\ cErr' = cErr
    /\ UNCHANGED <<cOp, cInput, cIdx, cModels, cRegistered, cHooked, cStored,
                   cFound, cCalls, cStoredAtCall,
                   crtRest>>

\* a CreateMany that writes the models before the invalid one
CreateValidate_WritesValidOnes ==
    /\ cPc = "validate"
    /\ cSeen' = Append(cSeen, Seen("Validate", cIdx, cModels[cIdx]))
    /\ LET errs == Validate(PtrTo(cModels[cIdx]), CrudUserSchema)
       IN IF Len(errs) > 0
          THEN /\ CrudReturn(ValidationErrors(errs))
               /\ cIdx' = cIdx
               /\ cStored' = cStored \o
                     [i \in 1..(cIdx - 1) |-> ToDocument(cModels[i], CrudUserSchema)]
          ELSE /\ cErr' = cErr
               /\ cStored' = cStored
               /\ IF cIdx < Len(cModels)
                  THEN cIdx' = cIdx + 1 /\ cPc' = "prepare"
                  ELSE cIdx' = cIdx /\ cPc' = "insert"
    /\ UNCHANGED <<cOp, cInput, cModels, cRegistered, cHooked, cFound, cCalls,
                   cStoredAtCall, crtRest>>

\* Validate; CreateMany goes on with its next model
CreateValidate ==
    /\ cPc = "validate"
    /\ cSeen' = Append(cSeen, Seen("Validate", cIdx, cModels[cIdx]))
    /\ LET errs == Validate(PtrTo(cModels[cIdx]), CrudUserSchema)
       IN IF Len(errs) > 0
          THEN CrudReturn(ValidationErrors(errs)) /\ cIdx' = cIdx
          ELSE /\ cErr' = cErr
               /\ IF cIdx < Len(cModels)
                  THEN cIdx' = cIdx + 1 /\ cPc' = "prepare"
                  ELSE cIdx' = cIdx /\ cPc' = "insert"
    /\ UNCHANGED <<cOp, cInput, cModels, cRegistered, cHooked, cStored, cFound,
                   cCalls, cStoredAtCall,
                   crtRest>>

\* coll.InsertOne, coll.InsertMany: all the documents or none
CreateInsert ==
    /\ cPc = "insert"
    /\ \E ok \in BOOLEAN :
          IF ok
          THEN /\ cStored' = cStored \o
                     [i \in 1..Len(cModels) |-> ToDocument(cModels[i], CrudUserSchema)]
               /\ cSeen' = cSeen \o
                     [i \in 1..Len(cModels) |-> Seen("Insert", i, cModels[i])]
               /\ cPc' = "after"
               /\ cErr' = cErr
          ELSE /\ CrudReturn(InsertFailed)
               /\ UNCHANGED <<cStored, cSeen>>
    /\ UNCHANGED <<cOp, cInput, cIdx, cModels, cRegistered, cHooked, cFound,
                   cCalls, cStoredAtCall,
                   crtRest>>

\* the AfterCreate hooks, then return nil
CreateAfterHook ==
    /\ cPc = "after"
    /\ IF cHooked
       THEN \E fails \in BOOLEAN :
               CrudReturn(IF fails THEN HookFailed ELSE NoError)
       ELSE CrudReturn(NoError)
    /\ UNCHANGED <<cOp, cInput, cIdx, cModels, cSeen, cRegistered, cHooked,
                   cStored, cFound, cCalls, cStoredAtCall,
                   crtRest>>

\* FindOne(ctx, bson.D{{"_id", id}}, &result)
FindOneCall(id) ==
    /\ cPc = "idle"
    /\ cCalls < MaxCrudCalls
    /\ cCalls' = cCalls + 1
    /\ cOp' = "FindOne"
    /\ LET hits == SelectSeq(cStored, LAMBDA d : d["_id"] = IntVal(id))
       IN IF ~cRegistered
          THEN CrudReturn(NotRegistered("testUser")) /\ cFound' = <<>>
          ELSE IF Len(hits) = 0
          THEN CrudReturn(ErrNotFound) /\ cFound' = <<>>
          ELSE CrudReturn(NoError) /\ cFound' = <<Decode(hits[1], CrudUserSchema)>>
    /\ cStoredAtCall' = cStored
    /\ UNCHANGED <<cInput, cIdx, cModels, cSeen, cRegistered, cHooked, cStored,
                   crtRest>>

\* Find(ctx, bson.D{}, &results)
FindCall ==
    /\ cPc = "idle"
    /\ cCalls < MaxCrudCalls
    /\ cCalls' = cCalls + 1
    /\ cOp' = "Find"
    /\ IF ~cRegistered
       THEN CrudReturn(NotRegistered("testUser")) /\ cFound' = <<>>
       ELSE /\ CrudReturn(NoError)
            /\ cFound' = [i \in 1..Len(cStored) |-> Decode(cStored[i], CrudUserSchema)]
    /\ cStoredAtCall' = cStored
    /\ UNCHANGED <<cInput, cIdx, cModels, cSeen, cRegistered, cHooked, cStored,
                   crtRest>>

\* the collection holds nothing, or a document another program wrote
CrtInit ==
    /\ cPc = "idle"
    /\ cOp = "none"
    /\ cInput = <<>>
    /\ cModels = <<>>
    /\ cIdx = 1
    /\ cErr = NoError
    /\ cSeen = <<>>
    /\ cFound = <<>>
    /\ cCalls = 0
    /\ cRegistered \in BOOLEAN
    /\ cHooked \in BOOLEAN
    /\ cStored \in {<<>>, <<LegacyDocument>>}
    /\ cStoredAtCall = <<>>

CrtIdle ==
    /\ cPc = "off"
    /\ cOp = "none"
    /\ cInput = <<>>
    /\ cModels = <<>>
    /\ cIdx = 1
    /\ cErr = NoError
    /\ cSeen = <<>>
    /\ cFound = <<>>
    /\ cCalls = 0
    /\ cRegistered = FALSE
    /\ cHooked = FALSE
    /\ cStored = <<>>
    /\ cStoredAtCall = <<>>

CrtNext ==
    \/ \E m \in CrudUsers : CreateCall(m)
    \/ \E ms \in CrudBatches : CreateManyCall(ms)
    \/ CreatePrepare
    \/ CreateBeforeHook
    \/ CreateValidate
    \/ CreateInsert
    \/ CreateAfterHook
    \/ \E id \in {3, 7, 11} : FindOneCall(id)
    \/ FindCall

(***************************************************************************)
(* Discovery (discover.go): sampleDocuments, inferGoType, resolveType.     *)
(* A document is the sequence of its elements, each a key and the BSON     *)
(* kind of its value; the keys of one document are distinct.               *)
(***************************************************************************)
Interface == "interface{}"

\* inferGoType: the Go type of a value of a BSON kind
inferGoType(kind) ==
    CASE kind = "string" -> "string"
      [] kind = "int32" -> "int32"
      [] kind = "int64" -> "int64"
      [] kind = "double" -> "float64"
      [] kind = "bool" -> "bool"
      [] kind = "null" -> "null"
      [] OTHER -> Interface

\* the one element of a set of one
TheOne(S) == CHOOSE t \in S : TRUE

\* resolveType without the promotion of integers to float64
resolveType_IntsKept(types) ==
    LET hasNull == "null" \in types
        t1 == types \ {"null"}
        t2 == IF "int32" \in t1 /\ "int64" \in t1 THEN t1 \ {"int32"} ELSE t1
    IN IF t1 = {} THEN <<Interface>>
       ELSE IF Cardinality(t2) = 1
       THEN IF hasNull THEN <<"*", TheOne(t2)>> ELSE <<TheOne(t2)>>
       ELSE <<Interface>>

\* resolveType: the Go type for a set of observed types; "*" + t is <<"*", t>>
resolveType(types) ==
    LET hasNull == "null" \in types
        t1 == types \ {"null"}
        t2 == IF "int32" \in t1 /\ "int64" \in t1 THEN t1 \ {"int32"} ELSE t1
        t3 == IF ("int32" \in t2 \/ "int64" \in t2) /\ "float64" \in t2
              THEN t2 \ {"int32", "int64"} ELSE t2
    IN IF t1 = {} THEN <<Interface>>
       ELSE IF Cardinality(t3) = 1
       THEN IF hasNull THEN <<"*", TheOne(t3)>> ELSE <<TheOne(t3)>>
       ELSE <<Interface>>

\* a field counts as required whenever it was seen at all
RequiredWhen_Seen(count, totalDocs) == count > 0

\* IsRequired: ft.count == totalDocs
RequiredWhen(count, totalDocs) == count = totalDocs

DiscoveredField(name, goType, isRequired) ==
    [BSONName |-> name, GoType |-> goType, IsRequired |-> isRequired,
     IsUnique |-> FALSE, IsIndexed |-> FALSE]

Elem(key, kind) == [Key |-> key, Value |-> kind]

\* what cursor.Decode makes of a document, or its failure
Decodable(elems) == [ok |-> TRUE, elems |-> elems]
Undecodable == [ok |-> FALSE, elems |-> <<>>]

SampleKeys == {"a", "b"}
SampleKinds == {"int32", "double", "null"}

\* the documents a collection may hold
SampleDocs ==
    {Undecodable}
    \cup {Decodable(<<>>)}
    \cup {Decodable(<<Elem(k, t)>>) : k \in SampleKeys, t \in SampleKinds}
    \cup {Decodable(<<Elem(ks[1], t1), Elem(ks[2], t2)>>) :
            ks \in {p \in SampleKeys \X SampleKeys : p[1] # p[2]},
            t1 \in SampleKinds, t2 \in SampleKinds}

SampleCollections == UNION {[1..n -> SampleDocs] : n \in 0..MaxDocs}

SampleFailed == <<"failed to sample documents">>

\* sampleDocuments: coll.Find with SetLimit(sampleSize); Find may fail
SampleCall ==
    /\ sPc = "start"
    /\ \E ok \in BOOLEAN :
          IF ok
          THEN /\ sCursor' = SubSeq(sColl, 1, Min2(Len(sColl), sSampleSize))
               /\ sPc' = "next"
               /\ sErr' = NoError
          ELSE /\ sCursor' = <<>>
               /\ sPc' = "done"
               /\ sErr' = SampleFailed
    /\ UNCHANGED <<sColl, sSampleSize, sTrackers, sFieldOrder, sTotalDocs,
                   sFields, rtVars, disRest>>

\* the trackers after the elements of one document, element by element
RECURSIVE Track(_, _)
Track(trackers, elems) ==
    IF Len(elems) = 0 THEN trackers
    ELSE LET elem == elems[1]
             ft == IF elem.Key \in DOMAIN trackers THEN trackers[elem.Key]
                   ELSE [types |-> {}, count |-> 0]
             now == [types |-> ft.types \cup {inferGoType(elem.Value)},
                     count |-> ft.count + 1]
         IN Track([k \in DOMAIN trackers \cup {elem.Key} |->
                      IF k = elem.Key THEN now ELSE trackers[k]],
                  Tail(elems))

\* fieldOrder after the elements of one document
RECURSIVE Ordered(_, _)
Ordered(fieldOrder, elems) ==
    IF Len(elems) = 0 THEN fieldOrder
    ELSE Ordered(IF \E i \in 1..Len(fieldOrder) : fieldOrder[i] = elems[1].Key
                 THEN fieldOrder ELSE Append(fieldOrder, elems[1].Key),
                 Tail(elems))

\* one turn of the loop over the cursor; a document that does not decode is
\* passed over
SampleNext ==
    /\ sPc = "next"
    /\ Len(sCursor) > 0
    /\ sCursor' = Tail(sCursor)
    /\ IF sCursor[1].ok
       THEN /\ sTotalDocs' = sTotalDocs + 1
            /\ sTrackers' = Track(sTrackers, sCursor[1].elems)
            /\ sFieldOrder' = Ordered(sFieldOrder, sCursor[1].elems)
       ELSE UNCHANGED <<sTotalDocs, sTrackers, sFieldOrder>>
    /\ UNCHANGED <<sPc, sColl, sSampleSize, sFields, sErr, rtVars, disRest>>

\* after the loop: nil for no document, else one field per tracked name
SampleReturn ==
    /\ sPc = "next"
    /\ Len(sCursor) = 0
    /\ sFields' = IF sTotalDocs = 0 THEN <<>>
                  ELSE [i \in 1..Len(sFieldOrder) |->
                           LET ft == sTrackers[sFieldOrder[i]]
                           IN DiscoveredField(sFieldOrder[i], resolveType(ft.types),
                                              RequiredWhen(ft.count, sTotalDocs))]
    /\ sPc' = "done"
    /\ UNCHANGED <<sCursor, sColl, sSampleSize, sTrackers, sFieldOrder,
                   sTotalDocs, sErr, rtVars, disRest>>

DisFresh ==
    /\ sCursor = <<>>
    /\ sTrackers = <<>>
    /\ sFieldOrder = <<>>
    /\ sTotalDocs = 0
    /\ sFields = <<>>
    /\ sErr = NoError

DisInit ==
    /\ sPc = "start"
    /\ sColl \in SampleCollections
    /\ sSampleSize \in 1..MaxDocs
    /\ DisFresh
    /\ rtPc = "off" /\ rtTypes = {} /\ rtResult = <<>>

DisIdle ==
    /\ sPc = "off"
    /\ sColl = <<>>
    /\ sSampleSize = 1
    /\ DisFresh
    /\ rtPc = "off" /\ rtTypes = {} /\ rtResult = <<>>

DisNext == SampleCall \/ SampleNext \/ SampleReturn

\* the Go types resolveType is tried on
GoTypes == {"null", "int32", "int64", "float64", "string", "bool", Interface}

ResolveInit ==
    /\ sPc = "off"
    /\ sColl = <<>>
    /\ sSampleSize = 1
    /\ DisFresh
    /\ rtPc = "start"
    /\ rtTypes \in SUBSET GoTypes
    /\ rtResult = <<>>

\* goType := resolveType(ft.types)
ResolveCall ==
    /\ rtPc = "start"
    /\ rtResult' = resolveType(rtTypes)
    /\ rtPc' = "done"
    /\ UNCHANGED <<rtTypes, sPc, sColl, sSampleSize, sCursor, sTrackers,
                   sFieldOrder, sTotalDocs, sFields, sErr, disRest>>

ResolveNext == ResolveCall

(***************************************************************************)
(* ParseGoodmTag (tags.go).  A tag is a string; a keyword of the tag       *)
(* language and a value such as "a" are single characters of the model.    *)
(***************************************************************************)
\* strings.Split(s, sep) for a separator of one character
Split(s, sep) ==
    LET F[i \in 0..Len(s)] ==
            IF i = 0 THEN << <<>> >>
            ELSE LET p == F[i - 1] IN
                 IF s[i] = sep THEN Append(p, <<>>)
                 ELSE [p EXCEPT ![Len(p)] = Append(@, s[i])]
    IN F[Len(s)]

\* strings.Join(parts, sep)
RECURSIVE Join(_, _)
Join(parts, sep) ==
    IF Len(parts) = 0 THEN <<>>
    ELSE IF Len(parts) = 1 THEN parts[1]
    ELSE parts[1] \o <<sep>> \o Join(Tail(parts), sep)

\* strings.TrimSpace
RECURSIVE TrimSpace(_)
TrimSpace(s) ==
    IF Len(s) = 0 THEN s
    ELSE IF s[1] = " " THEN TrimSpace(Tail(s))
    ELSE IF s[Len(s)] = " " THEN TrimSpace(SubSeq(s, 1, Len(s) - 1))
    ELSE s

\* strings.Cut(s, sep): around the first sep
Cut(s, sep) ==
    IF \E i \in 1..Len(s) : s[i] = sep
    THEN LET i == CHOOSE j \in 1..Len(s) :
                      s[j] = sep /\ \A h \in 1..(j - 1) : s[h] # sep
         IN [before |-> SubSeq(s, 1, i - 1),
             after |-> SubSeq(s, i + 1, Len(s)), found |-> TRUE]
    ELSE [before |-> s, after |-> <<>>, found |-> FALSE]

\* strconv.Atoi
Atoi(s) == ParseInt(s)

\* var fs FieldSchema; a nil *int and a nil slice are empty sequences
ZeroFieldSchema ==
    [Name |-> <<>>, BSONName |-> <<>>, Type |-> <<>>, Required |-> FALSE,
     Unique |-> FALSE, Index |-> FALSE, Default |-> <<>>, Enum |-> <<>>,
     Min |-> <<>>, Max |-> <<>>, Ref |-> <<>>, Immutable |-> FALSE,
     SubFields |-> <<>>, IsSlice |-> FALSE]

\* a keyword that is counted, not set
Keyword_Toggled(fs, part) ==
    IF part = <<"unique">> THEN [fs EXCEPT !.Unique = ~@]
    ELSE IF part = <<"index">> THEN [fs EXCEPT !.Index = ~@]
    ELSE IF part = <<"required">> THEN [fs EXCEPT !.Required = ~@]
    ELSE IF part = <<"immutable">> THEN [fs EXCEPT !.Immutable = ~@]
    ELSE fs

\* switch part: a bare keyword
Keyword(fs, part) ==
    IF part = <<"unique">> THEN [fs EXCEPT !.Unique = TRUE]
    ELSE IF part = <<"index">> THEN [fs EXCEPT !.Index = TRUE]
    ELSE IF part = <<"required">> THEN [fs EXCEPT !.Required = TRUE]
    ELSE IF part = <<"immutable">> THEN [fs EXCEPT !.Immutable = TRUE]
    ELSE fs

\* switch k: a key=value pair
KeyValue(fs, k, v) ==
    IF k = <<"default">> THEN [fs EXCEPT !.Default = v]
    ELSE IF k = <<"enum">> THEN [fs EXCEPT !.Enum = Split(v, "|")]
    ELSE IF k = <<"min">>
    THEN (IF Atoi(v).ok THEN [fs EXCEPT !.Min = <<Atoi(v).n>>] ELSE fs)
    ELSE IF k = <<"max">>
    THEN (IF Atoi(v).ok THEN [fs EXCEPT !.Max = <<Atoi(v).n>>] ELSE fs)
    ELSE IF k = <<"ref">> THEN [fs EXCEPT !.Ref = v]
    ELSE fs

\* the body of the loop over the parts
ParsePart(fs, raw) ==
    LET part == TrimSpace(raw)
        c == Cut(part, "=")
    IN IF part = <<>> THEN fs
       ELSE IF c.found THEN KeyValue(fs, c.before, c.after)
       ELSE Keyword(fs, part)

RECURSIVE ParseParts(_, _)
ParseParts(fs, parts) ==
    IF Len(parts) = 0 THEN fs
    ELSE ParseParts(ParsePart(fs, Head(parts)), Tail(parts))

ParseGoodmTag(tag) ==
    IF tag = <<>> THEN ZeroFieldSchema
    ELSE ParseParts(ZeroFieldSchema, Split(tag, ","))

\* the tokens the tags are made of
TagTokens ==
    {<<"required">>, <<" ", "required">>, <<"unique">>, <<"typo">>, <<>>,
     <<"default", "=", "a">>, <<"default", "=", "b">>,
     <<"min", "=", "5">>, <<"min", "=", "x">>,
     <<"enum", "=", "a", "|", "b">>}

TokenLists == UNION {[1..n -> TagTokens] : n \in 0..MaxTokens}

\* the token lists with the tokens of ts in another order
Reorderings(ts) ==
    LET n == Len(ts) IN
    {[i \in 1..n |-> ts[p[i]]] :
        p \in {q \in [1..n -> 1..n] : \A i, j \in 1..n : q[i] = q[j] => i = j}}

\* ts with a copy of x after its first at tokens
InsertAt(ts, at, x) == SubSeq(ts, 1, at) \o <<x>> \o SubSeq(ts, at + 1, Len(ts))

\* the token lists with one token of ts written once more
Duplications(ts) ==
    {InsertAt(ts, at, ts[k]) : at \in 0..Len(ts), k \in 1..Len(ts)}

TagInit ==
    /\ tPc = "start"
    /\ tTag \in {Join(ts, ",") : ts \in TokenLists}
    /\ tFs = ZeroFieldSchema
    /\ tTag2 = <<>>
    /\ tFs2 = ZeroFieldSchema

TagIdle ==
    /\ tPc = "off"
    /\ tTag = <<>>
    /\ tFs = ZeroFieldSchema
    /\ tTag2 = <<>>
    /\ tFs2 = ZeroFieldSchema

\* fs := ParseGoodmTag(goodmTag)
ParseTag ==
    /\ tPc = "start"
    /\ tFs' = ParseGoodmTag(tTag)
    /\ tPc' = "parsed"
    /\ UNCHANGED <<tTag, tTag2, tFs2, tagRest>>

\* the same tokens in another order, parsed
ParseReordered ==
    /\ tPc = "parsed"
    /\ \E ts \in Reorderings(Split(tTag, ",")) :
          /\ tTag2' = Join(ts, ",")
          /\ tFs2' = ParseGoodmTag(Join(ts, ","))
    /\ tPc' = "reordered"
    /\ UNCHANGED <<tTag, tFs, tagRest>>

\* the same tokens with one of them written once more, parsed
ParseDuplicated ==
    /\ tPc = "parsed"
    /\ \E ts \in Duplications(Split(tTag, ",")) :
          /\ tTag2' = Join(ts, ",")
          /\ tFs2' = ParseGoodmTag(Join(ts, ","))
    /\ tPc' = "duplicated"
    /\ UNCHANGED <<tTag, tFs, tagRest>>

TagNext == ParseTag \/ ParseReordered \/ ParseDuplicated

(***************************************************************************)
(* Register (registry.go) and StructFields, TypeName (internal/reflect.go):*)
(* the schema of a struct type.  A type is what reflect shows of it: its   *)
(* kind, and its name or the type of its elements.  The calls of           *)
(* StructFields are frames on the stack of the goroutine.                  *)
(***************************************************************************)
StringType == [kind |-> "string"]
StructType(name) == [kind |-> "struct", name |-> name]
PtrType(t) == [kind |-> "ptr", elem |-> t]
SliceType(t) == [kind |-> "slice", elem |-> t]

\* reflect.StructField: Name, IsExported(), Anonymous, Type, Tag
StructField(name, exported, anonymous, type, bsonTag, goodmTag) ==
    [Name |-> name, Exported |-> exported, Anonymous |-> anonymous,
     Type |-> type, bson |-> bsonTag, goodm |-> goodmTag]

\* strings.ToLower on the letters of the field names below
Capitals == {"N", "C", "K", "B", "T", "P", "I"}
LowerOf == [c \in Capitals |->
               CASE c = "N" -> "n" [] c = "C" -> "c" [] c = "K" -> "k"
                 [] c = "B" -> "b" [] c = "T" -> "t" [] c = "P" -> "p"
                 [] c = "I" -> "i"]
ToLower(s) == [i \in 1..Len(s) |-> IF s[i] \in Capitals THEN LowerOf[s[i]] ELSE s[i]]

\* internal.TypeName; t.String() of a struct of the package is goodm.<name>
RECURSIVE TypeName(_)
TypeName(t) ==
    IF t.kind = "ptr" THEN <<"*">> \o TypeName(t.elem)
    ELSE IF t.kind = "slice" THEN <<"[", "]">> \o TypeName(t.elem)
    ELSE IF t.kind = "struct" THEN <<"goodm", ".", t.name>>
    ELSE <<t.kind>>

\* ParseBSONTag: name = parts[0]
BSONNameOf(tag) == IF tag = <<>> THEN <<>> ELSE Split(tag, ",")[1]

\* if t.Kind() == reflect.Ptr { t = t.Elem() }
Deref(t) == IF t.kind = "ptr" THEN t.elem ELSE t

\* the fields a struct of the model may declare
NameField == StructField(<<"N", "a", "m", "e">>, TRUE, FALSE, StringType,
                         <<>>, <<"required">>)
ChildField == StructField(<<"C", "h", "i", "l", "d">>, TRUE, FALSE,
                          PtrType(StructType("Node")),
                          <<"c", "h", "i", "l", "d", ",", "omitempty">>, <<>>)
KidsField == StructField(<<"K", "i", "d", "s">>, TRUE, FALSE,
                         SliceType(StructType("Node")), <<"k", "i", "d", "s">>, <<>>)
\* struct { *Node }: the embedded field is named Node
SelfEmbedded == StructField(<<"N", "o", "d", "e">>, TRUE, TRUE,
                            PtrType(StructType("Node")), <<>>, <<>>)
BaseEmbedded == StructField(<<"B", "a", "s", "e">>, TRUE, TRUE,
                            StructType("Base"), <<>>, <<>>)
PeerEmbedded == StructField(<<"P", "e", "e", "r">>, TRUE, TRUE,
                            PtrType(StructType("Peer")), <<>>, <<>>)
hiddenField == StructField(<<"h", "i", "d">>, FALSE, FALSE, StringType,
                           <<>>, <<"unique">>)
TmpField == StructField(<<"T", "m", "p">>, TRUE, FALSE, StringType,
                        <<"-">>, <<>>)
IDField == StructField(<<"I", "D">>, TRUE, FALSE, StringType,
                       <<"_", "i", "d">>, <<>>)

NodeFields ==
    {NameField, ChildField, KidsField, SelfEmbedded, BaseEmbedded,
     PeerEmbedded, hiddenField, TmpField}

\* the declarations of Node: lists of fields with different names
NodeDecls ==
    {fs \in UNION {[1..n -> NodeFields] : n \in 0..MaxStructFields} :
        \A i, j \in 1..Len(fs) : fs[i] = fs[j] => i = j}

\* type Base struct { ID string; hid string }; type Peer struct { *Node }
TypeDecls(node) ==
    [Node |-> node, Base |-> <<IDField, hiddenField>>, Peer |-> <<SelfEmbedded>>]

\* the models Register is called with: a Node, a *Node, a string
RegisterModels == {StructType("Node"), PtrType(StructType("Node")), StringType}

NotAStruct(t) == <<"goodm: Register expects a struct, got", t.kind>>

\* a call of StructFields: the struct, the index of the loop, the fields
Frame(name) == [t |-> name, i |-> 1, fields |-> <<>>]

\* the loop of Register over the fields
RECURSIVE SchemaFields(_)
SchemaFields(fields) ==
    IF Len(fields) = 0 THEN <<>>
    ELSE LET f == Head(fields)
             tagName == BSONNameOf(f.bson)
             bsonName == IF tagName = <<>> THEN ToLower(f.Name) ELSE tagName
             fs == [ParseGoodmTag(f.goodm) EXCEPT
                       !.Name = f.Name, !.BSONName = bsonName,
                       !.Type = TypeName(f.Type)]
         IN IF bsonName = <<"-">> THEN SchemaFields(Tail(fields))
            ELSE <<fs>> \o SchemaFields(Tail(fields))

KFresh ==
    /\ kStack = <<>>
    /\ kFields = <<>>
    /\ kSchema = <<>>
    /\ kErr = NoError

KInit ==
    /\ kPc = "start"
    /\ kModel \in RegisterModels
    /\ kDecls \in {TypeDecls(node) : node \in NodeDecls}
    /\ KFresh

KIdle ==
    /\ kPc = "off"
    /\ kModel = StringType
    /\ kDecls = TypeDecls(<<>>)
    /\ KFresh

\* Register: t := reflect.TypeOf(model), then fields := internal.StructFields(t)
RegisterType ==
    /\ kPc = "start"
    /\ LET t == Deref(kModel) IN
       IF t.kind # "struct"
       THEN /\ kErr' = NotAStruct(t)
            /\ kPc' = "done"
            /\ UNCHANGED kStack
       ELSE /\ kStack' = <<Frame(t.name)>>
            /\ kPc' = "fields"
            /\ UNCHANGED kErr
    /\ UNCHANGED <<kModel, kDecls, kFields, kSchema, kRest>>

Top == kStack[Len(kStack)]
TopField == kDecls[Top.t][Top.i]
InLoop == kPc = "fields" /\ Top.i <= Len(kDecls[Top.t])
Advance(frame) == [frame EXCEPT !.i = @ + 1]
SetTop(frame) == [kStack EXCEPT ![Len(kStack)] = frame]

\* StructFields: if !f.IsExported() { continue }
SkipUnexported ==
    /\ InLoop
    /\ ~TopField.Exported
    /\ kStack' = SetTop(Advance(Top))
    /\ UNCHANGED <<kPc, kModel, kDecls, kFields, kSchema, kErr, kRest>>

\* StructFields: fields = append(fields, f)
AppendField ==
    /\ InLoop
    /\ TopField.Exported /\ ~TopField.Anonymous
    /\ kStack' = SetTop(Advance([Top EXCEPT !.fields = Append(@, TopField)]))
    /\ UNCHANGED <<kPc, kModel, kDecls, kFields, kSchema, kErr, kRest>>

\* StructFields: embedded := StructFields(f.Type), the call
FlattenEmbedded ==
    /\ InLoop
    /\ TopField.Exported /\ TopField.Anonymous
    /\ Len(kStack) < MaxStack
    /\ LET t == Deref(TopField.Type) IN
       IF t.kind # "struct"
       THEN kStack' = SetTop(Advance(Top))
       ELSE kStack' = Append(kStack, Frame(t.name))
    /\ UNCHANGED <<kPc, kModel, kDecls, kFields, kSchema, kErr, kRest>>

\* the call of StructFields that the stack of the goroutine cannot hold:
\* fatal error: stack overflow
StackOverflow ==
    /\ InLoop
    /\ TopField.Exported /\ TopField.Anonymous
    /\ Deref(TopField.Type).kind = "struct"
    /\ Len(kStack) = MaxStack
    /\ kPc' = "fatal"
    /\ UNCHANGED <<kStack, kModel, kDecls, kFields, kSchema, kErr, kRest>>

\* StructFields: return fields, to fields = append(fields, embedded...) of
\* the caller or to Register
ReturnFields ==
    /\ kPc = "fields"
    /\ Top.i > Len(kDecls[Top.t])
    /\ IF Len(kStack) > 1
       THEN LET caller == kStack[Len(kStack) - 1] IN
            /\ kStack' = [SubSeq(kStack, 1, Len(kStack) - 1) EXCEPT
                             ![Len(kStack) - 1] =
                                 Advance([caller EXCEPT !.fields = @ \o Top.fields])]
            /\ UNCHANGED <<kPc, kFields>>
       ELSE /\ kStack' = <<>>
            /\ kFields' = Top.fields
            /\ kPc' = "parse"
    /\ UNCHANGED <<kModel, kDecls, kSchema, kErr, kRest>>

\* Register: the loop over fields, registry[schema.ModelName] = schema
RegisterFields ==
    /\ kPc = "parse"
    /\ kSchema' = [ModelName |-> Deref(kModel).name,
                   Fields |-> SchemaFields(kFields)]
    /\ kPc' = "done"
    /\ UNCHANGED <<kModel, kDecls, kStack, kFields, kErr, kRest>>

KNext ==
    \/ RegisterType
    \/ SkipUnexported
    \/ AppendField
    \/ FlattenEmbedded
    \/ StackOverflow
    \/ ReturnFields
    \/ RegisterFields

(***************************************************************************)
(* DetectDrift (enforce.go) called on its own, on collections of few       *)
(* documents and on collections longer than the sample.                    *)
(***************************************************************************)
DriftKeys == {<<"_", "id">>, <<"nick">>, <<"age">>}

\* a document: its top-level keys, in the order the store returns them
DriftDocs == UNION {[1..n -> DriftKeys] : n \in 0..MaxDriftKeys}

\* a collection of one document more than the sample holds: the last
\* sampled document and the first one left out each bring a key of their own
LongCollection ==
    [i \in 1..(DriftSampleLimit + 1) |->
        IF i = DriftSampleLimit + 1 THEN << <<"_", "id">>, <<"late">> >>
        ELSE IF i = DriftSampleLimit THEN << <<"_", "id">>, <<"nick">> >>
        ELSE << <<"_", "id">> >>]

DriftCollections ==
    UNION {[1..n -> DriftDocs] : n \in 0..MaxDocs} \cup {LongCollection}

GInit ==
    /\ gPc = "start"
    /\ gSchema \in ModelSchemas
    /\ gFindOk = TRUE
    /\ gDrifts = <<>>
    /\ gDocsAtCall = docs

GIdle ==
    /\ gPc = "off"
    /\ gSchema = UserSchema
    /\ gFindOk = TRUE
    /\ gDrifts = <<>>
    /\ gDocsAtCall = <<>>

\* drifts := DetectDrift(ctx, db, schema)
DetectDriftCall ==
    /\ gPc = "start"
    /\ \E findOk \in BOOLEAN :
          /\ gFindOk' = findOk
          /\ gDrifts' = DetectDrift(gSchema, findOk)
    /\ gPc' = "done"
    /\ UNCHANGED <<gSchema, gDocsAtCall, gRest>>

GNext == DetectDriftCall

(***************************************************************************)
(* Use, UseFor, runMiddleware (middleware.go).  A registered function is   *)
(* known by the number of its registration; what it does is one of: pass   *)
(* (err := next(ctx); return err), abort (return its own error without     *)
(* calling next), swallow (next(ctx); return nil).                         *)
(***************************************************************************)
MwKinds == {"pass", "abort", "swallow"}

\* the error a middleware returns of its own
ErrorOf(id) == <<"middleware error", id>>

FnFailed == <<"operation failed">>

Registered == Len(wKinds)

MwFresh ==
    /\ wModelName = "none"
    /\ wFnErr = NoError
    /\ wChain = <<>>
    /\ wDepth = 0
    /\ wRet = NoError
    /\ wTrace = <<>>

MwInit ==
    /\ wPc = "setup"
    /\ globalMW = <<>>
    /\ modelMW = <<>>
    /\ wKinds = <<>>
    /\ MwFresh

MwIdle ==
    /\ wPc = "off"
    /\ globalMW = <<>>
    /\ modelMW = <<>>
    /\ wKinds = <<>>
    /\ MwFresh

\* Use(fn): globalMW = append(globalMW, fn)
Use(kind) ==
    /\ wPc = "setup"
    /\ Registered < MaxMiddleware
    /\ wKinds' = Append(wKinds, kind)
    /\ globalMW' = Append(globalMW, Registered + 1)
    /\ UNCHANGED <<wPc, modelMW, wModelName, wFnErr, wChain, wDepth, wRet,
                   wTrace, mwRest>>

\* UseFor(modelName, fn): modelMW[modelName] = append(modelMW[modelName], fn)
UseFor(modelName, kind) ==
    /\ wPc = "setup"
    /\ Registered < MaxMiddleware
    /\ wKinds' = Append(wKinds, kind)
    /\ modelMW' = [n \in DOMAIN modelMW \cup {modelName} |->
                      IF n = modelName
                      THEN (IF n \in DOMAIN modelMW THEN modelMW[n] ELSE <<>>)
                           \o <<Registered + 1>>
                      ELSE modelMW[n]]
    /\ UNCHANGED <<wPc, globalMW, wModelName, wFnErr, wChain, wDepth, wRet,
                   wTrace, mwRest>>

\* the chain put in the order of the model names, not of the registrations
BuildChain_ModelFirst(modelName) ==
    (IF modelName \in DOMAIN modelMW THEN modelMW[modelName] ELSE <<>>) \o globalMW

\* chain = append(chain, globalMW...), then modelMW[info.ModelName]
BuildChain(modelName) ==
    globalMW \o (IF modelName \in DOMAIN modelMW THEN modelMW[modelName] ELSE <<>>)

\* runMiddleware(ctx, info, fn): the chain is built, build(0)(ctx) is called
RunMiddleware(modelName, fnErr) ==
    /\ wPc = "setup"
    /\ wModelName' = modelName
    /\ wFnErr' = fnErr
    /\ wChain' = BuildChain(modelName)
    /\ wDepth' = 1
    /\ wPc' = "down"
    /\ UNCHANGED <<globalMW, modelMW, wKinds, wRet, wTrace, mwRest>>

\* chain[i](ctx, info, build(i+1)): the code of the middleware before next
EnterMiddleware ==
    /\ wPc = "down"
    /\ wDepth <= Len(wChain)
    /\ LET id == wChain[wDepth] IN
       /\ wTrace' = Append(wTrace, <<"before", id>>)
       /\ IF wKinds[id] = "abort"
          THEN /\ wRet' = ErrorOf(id)
               /\ wDepth' = wDepth - 1
               /\ wPc' = "up"
          ELSE /\ wDepth' = wDepth + 1
               /\ UNCHANGED <<wRet, wPc>>
    /\ UNCHANGED <<globalMW, modelMW, wKinds, wModelName, wFnErr, wChain, mwRest>>

\* build(len(chain)) is fn: the operation runs
RunOperation ==
    /\ wPc = "down"
    /\ wDepth = Len(wChain) + 1
    /\ wTrace' = Append(wTrace, <<"operation", 0>>)
    /\ wRet' = wFnErr
    /\ wDepth' = wDepth - 1
    /\ wPc' = "up"
    /\ UNCHANGED <<globalMW, modelMW, wKinds, wModelName, wFnErr, wChain, mwRest>>

\* next(ctx) has returned: the code of the middleware after it, its return
LeaveMiddleware ==
    /\ wPc = "up"
    /\ wDepth >= 1
    /\ LET id == wChain[wDepth] IN
       /\ wTrace' = Append(wTrace, <<"after", id>>)
       /\ wRet' = IF wKinds[id] = "swallow" THEN NoError ELSE wRet
    /\ wDepth' = wDepth - 1
    /\ UNCHANGED <<wPc, globalMW, modelMW, wKinds, wModelName, wFnErr, wChain,
                   mwRest>>

\* build(0)(ctx) has returned: runMiddleware returns its value
MiddlewareReturn ==
    /\ wPc = "up"
    /\ wDepth = 0
    /\ wPc' = "done"
    /\ UNCHANGED <<globalMW, modelMW, wKinds, wModelName, wFnErr, wChain,
                   wDepth, wRet, wTrace, mwRest>>

MwNext ==
    \/ \E kind \in MwKinds : Use(kind)
    \/ \E n \in ModelNames, kind \in MwKinds : UseFor(n, kind)
    \/ \E n \in ModelNames, e \in {NoError, FnFailed} : RunMiddleware(n, e)
    \/ EnterMiddleware
    \/ RunOperation
    \/ LeaveMiddleware
    \/ MiddlewareReturn

(***************************************************************************)
(* Update (crud.go).  The model is a Model with a name; the schema either  *)
(* marks the name immutable or has no immutable field at all.              *)
(***************************************************************************)
UField(name, bson, required, immutable) ==
    [Name |-> name, BSONName |-> bson, Required |-> required, Enum |-> NoEnum,
     Min |-> NoBound, Max |-> NoBound, SubFields |-> Leaf, IsSlice |-> FALSE,
     Immutable |-> immutable]

\* Name `bson:"name" goodm:"required,immutable"`, or `goodm:"required"`
UpdateSchema(immutable) ==
    [ModelName |-> "testUser", Collection |-> "test_users",
     Fields |-> << UField("ID", "_id", FALSE, FALSE),
                   UField("UpdatedAt", "updated_at", FALSE, FALSE),
                   UField("Name", "name", TRUE, immutable) >>]

UpdateUser(id, updatedAt, name) ==
    StructVal([ID |-> IntVal(id), UpdatedAt |-> IntVal(updatedAt),
               Name |-> StringVal(name)])

UpdateUsers ==
    {UpdateUser(id, 0, n) : id \in {0, 7}, n \in {<<>>, <<"a">>, <<"b">>}}

\* what a BeforeSave hook does to the model it is called on
SaveHooks == {"keep", "rename", "fail"}

\* hasImmutableFields
hasImmutableFields(schema) ==
    \E k \in 1..Len(schema.Fields) : schema.Fields[k].Immutable

\* validateImmutable: one error per immutable field that differs
RECURSIVE validateImmutable(_, _, _)
validateImmutable(old, new, fields) ==
    IF Len(fields) = 0 THEN <<>>
    ELSE (IF fields[1].Immutable
             /\ old.fields[fields[1].Name] # new.fields[fields[1].Name]
          THEN << ValidationError(fields[1].BSONName,
                      <<"field is immutable and cannot be changed">>) >>
          ELSE <<>>)
         \o validateImmutable(old, new, Tail(fields))

\* the documents with the _id of the model
Matching(stored, m) ==
    {i \in 1..Len(stored) : stored[i]["_id"] = m.fields.ID}

\* Decode of a document this program wrote: every field from its key
DecodeExisting(doc, schema) ==
    StructVal([name \in {schema.Fields[k].Name : k \in 1..Len(schema.Fields)} |->
        doc[(CHOOSE f \in {schema.Fields[k] : k \in 1..Len(schema.Fields)} :
                f.Name = name).BSONName]])

ZeroID == <<"goodm: cannot update document with zero ID">>
FetchFailed == <<"goodm: failed to fetch existing document">>
UpdateFailed == <<"goodm: update failed">>

UpdateReturn(err) ==
    /\ uPc' = "idle"
    /\ uErr' = err

\* Update(ctx, model): getSchemaForModel, getModelID, runMiddleware, getDB
UpdateCall(m) ==
    /\ uPc = "idle"
    /\ uCalls < MaxCrudCalls
    /\ uCalls' = uCalls + 1
    /\ uModel' = m
    /\ uSteps' = <<>>
    /\ uStoredAtCall' = uStored
    /\ IF m.fields.ID.n = 0 THEN UpdateReturn(ZeroID)
       ELSE uPc' = "fetch" /\ uErr' = NoError
    /\ UNCHANGED <<uStored, uImmutable, uHooked, updRest>>

\* if hasImmutableFields(schema): FindOne and Decode, then validateImmutable
UpdateFetchExisting ==
    /\ uPc = "fetch"
    /\ IF hasImmutableFields(UpdateSchema(uImmutable))
       THEN \E findOk \in BOOLEAN :
               IF ~findOk
               THEN uSteps' = Append(uSteps, "Fetch") /\ UpdateReturn(FetchFailed)
               ELSE IF Matching(uStored, uModel) = {}
               THEN uSteps' = Append(uSteps, "Fetch") /\ UpdateReturn(ErrNotFound)
               ELSE LET doc == uStored[CHOOSE i \in Matching(uStored, uModel) :
                                          \A j \in Matching(uStored, uModel) : i <= j]
                        existingDoc == DecodeExisting(doc, UpdateSchema(uImmutable))
                        immutableErrs ==
                            validateImmutable(existingDoc, uModel,
                                              UpdateSchema(uImmutable).Fields)
                    IN /\ uSteps' = uSteps \o <<"Fetch", "ImmutableCheck">>
                       /\ IF Len(immutableErrs) > 0
                          THEN UpdateReturn(ValidationErrors(immutableErrs))
                          ELSE uPc' = "beforeSave" /\ uErr' = uErr
       ELSE uSteps' = uSteps /\ uPc' = "beforeSave" /\ uErr' = uErr
    /\ UNCHANGED <<uModel, uStored, uStoredAtCall, uImmutable, uHooked, uCalls,
                   updRest>>

\* the BeforeSave hook of a model that has one: it is given the pointer
UpdateBeforeSave ==
    /\ uPc = "beforeSave"
    /\ IF uHooked
       THEN /\ uSteps' = Append(uSteps, "BeforeSave")
            /\ \E hook \in SaveHooks :
                  /\ uModel' = IF hook = "rename"
                               THEN [uModel EXCEPT !.fields.Name = StringVal(<<"h">>)]
                               ELSE uModel
                  /\ IF hook = "fail" THEN UpdateReturn(HookFailed)
                     ELSE uPc' = "validate" /\ uErr' = uErr
       ELSE /\ uSteps' = uSteps
            /\ uModel' = uModel
            /\ uPc' = "validate"
            /\ uErr' = uErr
    /\ UNCHANGED <<uStored, uStoredAtCall, uImmutable, uHooked, uCalls, updRest>>

\* Validate(model, schema)
UpdateValidate ==
    /\ uPc = "validate"
    /\ uSteps' = Append(uSteps, "Validate")
    /\ LET errs == Validate(PtrTo(uModel), UpdateSchema(uImmutable))
       IN IF Len(errs) > 0 THEN UpdateReturn(ValidationErrors(errs))
          ELSE uPc' = "replace" /\ uErr' = uErr
    /\ UNCHANGED <<uModel, uStored, uStoredAtCall, uImmutable, uHooked, uCalls,
                   updRest>>

\* setUpdatedAt, then coll.ReplaceOne and its MatchedCount
UpdateReplace ==
    /\ uPc = "replace"
    /\ uSteps' = uSteps \o <<"UpdatedAt", "ReplaceOne">>
    /\ uModel' = [uModel EXCEPT !.fields.UpdatedAt = IntVal(Now)]
    /\ \E replaceOk \in BOOLEAN :
          IF ~replaceOk
          THEN UpdateReturn(UpdateFailed) /\ uStored' = uStored
          ELSE IF Matching(uStored, uModel) = {}
          THEN UpdateReturn(ErrNotFound) /\ uStored' = uStored
          ELSE /\ uStored' =
                     [uStored EXCEPT
                        ![CHOOSE i \in Matching(uStored, uModel) :
                             \A j \in Matching(uStored, uModel) : i <= j] =
                            ToDocument(uModel', UpdateSchema(uImmutable))]
               /\ uPc' = "afterSave"
               /\ uErr' = uErr
    /\ UNCHANGED <<uStoredAtCall, uImmutable, uHooked, uCalls, updRest>>

\* the AfterSave hook, then return nil
UpdateAfterSave ==
    /\ uPc = "afterSave"
    /\ IF uHooked
       THEN /\ uSteps' = Append(uSteps, "AfterSave")
            /\ \E fails \in BOOLEAN :
                  UpdateReturn(IF fails THEN HookFailed ELSE NoError)
       ELSE uSteps' = uSteps /\ UpdateReturn(NoError)
    /\ UNCHANGED <<uModel, uStored, uStoredAtCall, uImmutable, uHooked, uCalls,
                   updRest>>

\* the collection is empty or holds the user 7 named a
UpdInit ==
    /\ uPc = "idle"
    /\ uModel = UpdateUser(0, 0, <<>>)
    /\ uImmutable \in BOOLEAN
    /\ uHooked \in BOOLEAN
    /\ uStored \in {<<>>, <<ToDocument(UpdateUser(7, 0, <<"a">>), UpdateSchema(TRUE))>>}
    /\ uStoredAtCall = <<>>
    /\ uSteps = <<>>
    /\ uErr = NoError
    /\ uCalls = 0

UpdIdle ==
    /\ uPc = "off"
    /\ uModel = UpdateUser(0, 0, <<>>)
    /\ uImmutable = FALSE
    /\ uHooked = FALSE
    /\ uStored = <<>>
    /\ uStoredAtCall = <<>>
    /\ uSteps = <<>>
    /\ uErr = NoError
    /\ uCalls = 0

UpdNext ==
    \/ \E m \in UpdateUsers : UpdateCall(m)
    \/ UpdateFetchExisting
    \/ UpdateBeforeSave
    \/ UpdateValidate
    \/ UpdateReplace
    \/ UpdateAfterSave

\* the components idle in a run of one of the parts above
LaterIdle == DefIdle /\ CrtIdle /\ DisIdle /\ TagIdle /\ KIdle /\ GIdle /\ CtxIdle /\ MwIdle /\ UpdIdle

(***************************************************************************)
(* Specifications: one per part of the program.                            *)
(***************************************************************************)
\* index reconciliation by plan: PlanMigration, Migrate, ExecuteMigration
InitMigrate == MigInit /\ NmIdle /\ RegIdle /\ ValIdle /\ LaterIdle

SpecMigrate == InitMigrate /\ [][MigNext]_vars

\* the same while the program goes on registering models
InitLive == MigInit /\ NmIdle /\ RegIdle /\ ValIdle /\ LaterIdle

SpecLive == InitLive /\ [][LiveNext]_vars

\* index reconciliation at startup: Enforce
InitEnforce == NmIdle /\ MigInit /\ ValIdle /\ RegIdle /\ LaterIdle

SpecEnforce == InitEnforce /\ [][EnfNext]_vars

\* reconciliation for schemas with an underscore and a digit in field names
InitNumbered ==
    /\ registry \in NumberedRegistries
    /\ db \in NumberedDatabases
    /\ docs = [c \in NumberedColls |-> <<>>]
    /\ MigIdle /\ NmIdle /\ RegIdle /\ ValIdle /\ LaterIdle

NumberedNext == MigNext \/ \E n \in NumberedNames : PlanSchema(n)

SpecNumbered == InitNumbered /\ [][NumberedNext]_vars

\* reconciliation under a context the caller may cancel
InitCancel == MigInit /\ NmIdle /\ RegIdle /\ ValIdle /\ LaterIdle

CancelNext == MigNext \/ EnfNext \/ Cancel

SpecCancel == InitCancel /\ [][CancelNext]_vars

\* the naming round trip on its own
InitName == NmInit /\ StoreIdle /\ MigIdle /\ RegIdle /\ ValIdle /\ LaterIdle

SpecName == InitName /\ [][NmNext]_vars

\* the registry under concurrent goroutines, empty at program start
InitRegistry == RegIdle /\ StoreIdle /\ MigIdle /\ NmIdle /\ ValIdle /\ LaterIdle

SpecRegistry == InitRegistry /\ [][RegNext]_vars

\* validation of one instance against one schema
InitValidate == ValInit /\ StoreIdle /\ MigIdle /\ NmIdle /\ RegIdle /\ LaterIdle

SpecValidate == InitValidate /\ [][ValNext]_vars

\* the parts modelled first, all idle
CoreIdle == NmIdle /\ StoreIdle /\ MigIdle /\ RegIdle /\ ValIdle

\* applyDefaults on one model
InitDefaults == DefInit /\ CoreIdle /\ CrtIdle /\ DisIdle /\ TagIdle /\ KIdle /\ GIdle /\ CtxIdle /\ MwIdle /\ UpdIdle

SpecDefaults == InitDefaults /\ [][DefNext]_vars

\* creation and reads of one model type
InitCreate == CrtInit /\ CoreIdle /\ DefIdle /\ DisIdle /\ TagIdle /\ KIdle /\ GIdle /\ CtxIdle /\ MwIdle /\ UpdIdle

SpecCreate == InitCreate /\ [][CrtNext]_vars

\* sampling the documents of one collection
InitDiscover == DisInit /\ CoreIdle /\ DefIdle /\ CrtIdle /\ TagIdle /\ KIdle /\ GIdle /\ CtxIdle /\ MwIdle /\ UpdIdle

SpecDiscover == InitDiscover /\ [][DisNext]_vars

\* resolveType on one set of observed types
InitResolve == ResolveInit /\ CoreIdle /\ DefIdle /\ CrtIdle /\ TagIdle /\ KIdle /\ GIdle /\ CtxIdle /\ MwIdle /\ UpdIdle

SpecResolve == InitResolve /\ [][ResolveNext]_vars

\* ParseGoodmTag on one tag, then on the tag with its tokens rearranged
InitTag == TagInit /\ CoreIdle /\ DefIdle /\ CrtIdle /\ DisIdle /\ KIdle /\ GIdle /\ CtxIdle /\ MwIdle /\ UpdIdle

SpecTag == InitTag /\ [][TagNext]_vars

\* Register of one struct type; the goroutine that runs it keeps running
InitRegisterType == KInit /\ CoreIdle /\ DefIdle /\ CrtIdle /\ DisIdle /\ TagIdle /\ GIdle /\ CtxIdle /\ MwIdle /\ UpdIdle

SpecRegisterType == InitRegisterType /\ [][KNext]_vars /\ WF_vars(KNext)

\* registrations of middleware, then one runMiddleware
InitMiddleware == MwInit /\ CoreIdle /\ DefIdle /\ CrtIdle /\ DisIdle /\ TagIdle /\ KIdle /\ GIdle /\ CtxIdle /\ UpdIdle

SpecMiddleware == InitMiddleware /\ [][MwNext]_vars

\* calls of Update on one collection
InitUpdate == UpdInit /\ CoreIdle /\ DefIdle /\ CrtIdle /\ DisIdle /\ TagIdle /\ KIdle /\ GIdle /\ CtxIdle /\ MwIdle

SpecUpdate == InitUpdate /\ [][UpdNext]_vars

\* DetectDrift on one schema and the documents of its collection
InitDrift ==
    /\ registry = <<>>
    /\ db = [c \in Colls |-> {}]
    /\ \E ds \in DriftCollections : docs = [c \in Colls |-> ds]
    /\ GInit
    /\ NmIdle /\ MigIdle /\ RegIdle /\ ValIdle
    /\ DefIdle /\ CrtIdle /\ DisIdle /\ TagIdle /\ KIdle /\ CtxIdle /\ MwIdle /\ UpdIdle

SpecDrift == InitDrift /\ [][GNext]_vars

(***************************************************************************)
(* C6: the naming round trip.                                              *)
(***************************************************************************)
NoDirectionToken(fields) ==
    \A i \in 1..Len(fields) :
        LET toks == SplitUnderscore(fields[i]) IN
        \A t \in 1..Len(toks) : ~IsDirection(toks[t])

AllNonEmpty(fields) == \A i \in 1..Len(fields) : fields[i] # <<>>

\* C6 as stated: for every list of field names none of whose underscore-
\* separated tokens is "1" or "-1", decoding the canonical name gives the same
\* ordered fields, each ascending.  (Fails for the empty field name, which the
\* decoder drops.)
C6_RoundTripEveryName ==
    (nmPc = "decoded" /\ NoDirectionToken(nmFields))
        => nmKeys = Ascending(nmFields)

\* C6 amended: for every list of non-empty field names none of whose
\* underscore-separated tokens is "1" or "-1", decoding the canonical name
\* gives the same ordered fields, each ascending.
C6_RoundTripNonEmptyNames ==
    (nmPc = "decoded" /\ NoDirectionToken(nmFields) /\ AllNonEmpty(nmFields))
        => nmKeys = Ascending(nmFields)

\* two fields, the first with an underscore inside, decoded back
C6_Witness ==
    /\ nmPc = "decoded"
    /\ nmFields = << <<"a", "_", "a">>, <<"a">> >>
    /\ nmName = <<"a", "_", "a", "_", "1", "_", "a", "_", "1">>
    /\ nmKeys = Ascending(nmFields)

(***************************************************************************)
(* C1 - C5: planning and executing a migration.                            *)
(***************************************************************************)
\* the index names of the actions of one type that the plan p holds for coll
PlanNames(p, type, coll) ==
    {p[i].IndexName :
        i \in {k \in 1..Len(p) : p[k].Type = type /\ p[k].Collection = coll}}

CountActions(p, type, coll) ==
    Cardinality({k \in 1..Len(p) : p[k].Type = type /\ p[k].Collection = coll})

\* the index names a listing of coll gives in the database d
ListedAt(d, coll) == {ix.name : ix \in d[coll]}

\* a call that planned over every schema has returned
Planned ==
    /\ mOp \in {"PlanMigration", "Migrate"}
    /\ mPc = "idle"
    /\ retErr = NoError

\* C1: for every schema, the plan creates exactly the expected names that are
\* not listed and drops exactly the listed names that are not expected, "_id_"
\* taken out of both; each name once, nothing for any other collection, and
\* never "_id_".
C1_PlanIsDifference ==
    Planned =>
        /\ \A n \in DOMAIN schemas :
              LET coll == schemas[n].Collection
                  expected == buildExpectedIndexes(schemas[n]) \ {IdIndexName}
                  actual == ListedAt(dbAtCall, coll) \ {IdIndexName}
              IN /\ PlanNames(plan, "ActionCreateIndex", coll) = expected \ actual
                 /\ PlanNames(plan, "ActionDropIndex", coll) = actual \ expected
                 /\ CountActions(plan, "ActionCreateIndex", coll)
                        = Cardinality(expected \ actual)
                 /\ CountActions(plan, "ActionDropIndex", coll)
                        = Cardinality(actual \ expected)
        /\ \A i \in 1..Len(plan) :
              /\ plan[i].Collection \in {schemas[n].Collection : n \in DOMAIN schemas}
              /\ plan[i].IndexName # IdIndexName

\* a plan for User over a collection that holds "_id_" and legacy_1 only:
\* email_1 is created, legacy_1 is dropped
C1_Witness ==
    /\ Planned
    /\ mOp = "PlanMigration"
    /\ "User" \in DOMAIN schemas
    /\ ListedAt(db, "users") = {IdIndexName, SingleIndexName(<<"legacy">>)}
    /\ \E i, j \in 1..Len(plan) :
          /\ plan[i] = CreateAction("users", SingleIndexName(<<"email">>))
          /\ plan[j] = DropAction("users", SingleIndexName(<<"legacy">>))

\* ExecuteMigration is running or has returned, on its own or inside Migrate
Executing ==
    /\ mPc \in {"executing", "idle"}
    /\ \/ mOp = "ExecuteMigration"
       \/ mOp = "Migrate" /\ ~opts.DryRun /\ planErr = NoError

\* the actions ExecuteMigration has gone through
Processed == SubSeq(plan, 1, actionIdx - 1)

IsDrop(a) == a.Type = "ActionDropIndex"

CountCalls(op) == Cardinality({i \in 1..Len(calls) : calls[i].op = op})

SkipWarnings ==
    {i \in 1..Len(result.Warnings) : Head(result.Warnings[i]) = "Skipped drop: "}

\* C2: a drop-index call is issued only when DropExtras is set; when it is
\* not, every drop action adds one to Skipped and one warning, and no index
\* leaves the database.
C2_DropsOnlyOnRequest ==
    Executing =>
        LET drops == Len(SelectSeq(Processed, IsDrop)) IN
        IF opts.DropExtras
        THEN /\ CountCalls("DropOne") = drops
             /\ result.Skipped = 0
             /\ SkipWarnings = {}
        ELSE /\ CountCalls("DropOne") = 0
             /\ result.Skipped = drops
             /\ Cardinality(SkipWarnings) = drops
             /\ \A c \in Colls : ListedAt(dbAtCall, c) \subseteq ListedAt(db, c)

\* Migrate without DropExtras met legacy_1, skipped it with a warning, and the
\* index is still there
C2_Witness ==
    /\ Executing
    /\ mPc = "idle"
    /\ ~opts.DropExtras
    /\ result.Skipped = 1
    /\ Cardinality(SkipWarnings) = 1
    /\ \E i \in 1..Len(plan) :
          plan[i] = DropAction("users", SingleIndexName(<<"legacy">>))
    /\ SingleIndexName(<<"legacy">>) \in ListedAt(db, "users")

IsStoreAction(a) ==
    \/ a.Type = "ActionCreateIndex"
    \/ a.Type = "ActionDropIndex" /\ opts.DropExtras

\* the store calls the processed actions ask for, in plan order
ExpectedCalls ==
    LET p == SelectSeq(Processed, IsStoreAction) IN
    [i \in 1..Len(p) |->
        <<IF p[i].Type = "ActionCreateIndex" THEN "CreateOne" ELSE "DropOne",
          p[i].Collection, p[i].IndexName>>]

IssuedCalls == [i \in 1..Len(calls) |-> <<calls[i].op, calls[i].coll, calls[i].name>>]

FailedCalls == {i \in 1..Len(calls) : ~calls[i].ok}

\* C3: every failed create or drop call adds one entry to Errors; the calls
\* issued are those of the plan's actions, in plan order, whichever of them
\* fail; and ExecuteMigration returns a nil error after the last action.
C3_ErrorsDoNotStopThePlan ==
    Executing =>
        /\ IssuedCalls = ExpectedCalls
        /\ Len(result.Errors) = Cardinality(FailedCalls)
        /\ result.Executed = Len(calls) - Cardinality(FailedCalls)
        /\ mPc = "idle" => (retErr = NoError /\ actionIdx = Len(plan) + 1)

\* a store call failed and a later action of the same plan was still carried
\* out
C3_Witness ==
    /\ Executing
    /\ mPc = "idle"
    /\ Len(result.Errors) = 1
    /\ result.Executed >= 1
    /\ \E i, j \in 1..Len(calls) : i < j /\ ~calls[i].ok /\ calls[j].ok

\* PlanMigration has returned a plan, and the call before it was a
\* PlanMigration that returned one too: nothing changed in between
PlannedTwice ==
    /\ mOp = "PlanMigration"
    /\ mPc = "idle"
    /\ retErr = NoError
    /\ prev.op = "PlanMigration"
    /\ prev.err = NoError

\* every collection of a registered schema lists exactly the expected names
InSync ==
    \A n \in DOMAIN schemas :
        ListedAt(db, schemas[n].Collection) \ {IdIndexName}
            = buildExpectedIndexes(schemas[n]) \ {IdIndexName}

\* C4 as stated: a second PlanMigration, nothing having changed since the
\* first, returns a plan with no create-index and no drop-index action.
C4_SecondPlanIsEmpty == PlannedTwice => Changes(plan) = {}

\* C4 amended: a second PlanMigration, nothing having changed since the first,
\* returns the create-index and drop-index actions of the first plan; there
\* are none exactly when every collection already lists the expected names.
C4_SecondPlanRepeatsFirst ==
    PlannedTwice =>
        /\ Changes(plan) = prev.changes
        /\ Changes(plan) = {} <=> InSync

\* the second of two plans for User still asks for email_1, as the first did
C4_Witness ==
    /\ PlannedTwice
    /\ "User" \in DOMAIN schemas
    /\ <<"ActionCreateIndex", "users", SingleIndexName(<<"email">>)>> \in Changes(plan)
    /\ Changes(plan) = prev.changes

\* C5: Migrate with DryRun issues no create-index and no drop-index call and
\* leaves every collection's indexes as they were; it returns Executed = 0,
\* no errors, and Skipped equal to the number of planned actions.
C5_DryRunChangesNothing ==
    (mOp = "Migrate" /\ opts.DryRun) =>
        /\ calls = <<>>
        /\ db = dbAtCall
        /\ result.Executed = 0
        /\ result.Errors = <<>>
        /\ (mPc = "idle" /\ retErr = NoError) => result.Skipped = Len(plan)

\* a dry run whose plan holds a create, a drop and a drift action: three
\* skipped, database untouched
C5_Witness ==
    /\ mOp = "Migrate"
    /\ opts.DryRun
    /\ mPc = "idle"
    /\ retErr = NoError
    /\ result.Skipped = Len(plan)
    /\ \E i, j, k \in 1..Len(plan) :
          /\ plan[i].Type = "ActionCreateIndex"
          /\ plan[j].Type = "ActionDropIndex"
          /\ plan[k].Type = "ActionFieldDrift"
    /\ db = dbAtCall

(***************************************************************************)
(* C7: unique fields and unique indexes.                                   *)
(***************************************************************************)
\* the field of BSON name bson is backed by a unique index of coll
BackedByUniqueIndex(coll, bson) ==
    \E ix \in db[coll] : ix.unique /\ ix.keys = Ascending(<<bson>>)

UniqueFieldsBacked ==
    \A n \in DOMAIN schemas :
        \A i \in 1..Len(schemas[n].Fields) :
            schemas[n].Fields[i].Unique
                => BackedByUniqueIndex(schemas[n].Collection,
                                       schemas[n].Fields[i].BSONName)

\* C7: after Enforce returns nil, every field tagged unique is backed by a
\* unique index on its collection, whatever indexes existed beforehand.
C7_UniqueFieldsBackedAfterEnforce ==
    (mOp = "Enforce" /\ mPc = "idle" /\ retErr = NoError) => UniqueFieldsBacked

(***************************************************************************)
(* C8, C9: the registry under concurrent calls.                            *)
(***************************************************************************)
\* C8: a Register that finds its model name in the registry returns the
\* duplicate error and leaves the registry as it was: Get and GetAll still
\* return the Schema instance registered before, not the one this call built.
C8_DuplicateRegisterChangesNothing ==
    [][\A g \in Writers :
          (/\ rPc[g] = "reg_check"
           /\ rPc'[g] # "reg_check"
           /\ rOp[g].name \in DOMAIN registry)
          => /\ registry' = registry
             /\ rRet'[g].err = AlreadyRegistered(rOp[g].name)
             /\ Lookup(registry', rOp[g].name).s = <<registry[rOp[g].name]>>
             /\ registry'[rOp[g].name] # rLocal[g]]_vars

\* a Register of testUser has returned the duplicate error, and the registry
\* still holds the instance of another call
C8_Witness ==
    \E g \in Writers :
        /\ rPc[g] = "idle"
        /\ rOp[g] = [kind |-> "Register", name |-> "testUser"]
        /\ rRet[g].err = AlreadyRegistered("testUser")
        /\ "testUser" \in DOMAIN registry
        /\ registry["testUser"].id # rLocal[g].id

\* the write lock is held by one goroutine, and by no reader, from Register's
\* check to its unlock and throughout unregister
WritersExcludeAll ==
    \A g \in Writers :
        rPc[g] \in {"reg_check", "reg_insert", "reg_unlock", "un_delete"}
            => (rwWriters = {g} /\ rwReaders = {})

\* what the check found still holds when the insert happens
CheckHoldsAtInsert ==
    \A g \in Writers :
        /\ rPc[g] = "reg_insert" => rOp[g].name \notin DOMAIN registry
        /\ rPc[g] = "reg_unlock" => registry[rOp[g].name] = rLocal[g]

\* a reader holds the read lock only over a registry that completed writes
\* left, and what it has read so far is read from that registry
ReadersSeeWholeCalls ==
    \A g \in Readers :
        /\ g \in rwReaders => registry = committed
        /\ rPc[g] = "get_unlock" => rLocal[g] = Lookup(committed, rOp[g].name)
        /\ rPc[g] = "ga_copy" =>
              /\ DOMAIN rLocal[g] \subseteq DOMAIN committed
              /\ \A k \in DOMAIN rLocal[g] : rLocal[g][k] = committed[k]
              /\ ToCopy(g) = {} => DOMAIN rLocal[g] = DOMAIN committed

\* C9 as stated: check and insert are one atomic step under the write lock;
\* of concurrent Register calls for one name exactly one succeeds: a Register
\* does not succeed once a concurrent Register of its name has; and a reader
\* sees only registries left by completed registrations and unregistrations.
C9_OneConcurrentRegisterSucceeds ==
    /\ WritersExcludeAll
    /\ CheckHoldsAtInsert
    /\ \A g \in Writers : rPc[g] = "reg_unlock" => rRival[g] = "none"
    /\ ReadersSeeWholeCalls

\* C9 amended: check and insert are one atomic step under the write lock; a
\* Register succeeds only if the name is absent at its insert, so it does not
\* succeed after a concurrent Register of its name has, unless an unregister
\* removed that entry in between; and a reader sees only registries left by
\* completed registrations and unregistrations.
C9_RegisterSucceedsOnlyOnAbsentName ==
    /\ WritersExcludeAll
    /\ CheckHoldsAtInsert
    /\ \A g \in Writers : rPc[g] = "reg_unlock" => rRival[g] # "won"
    /\ ReadersSeeWholeCalls

\* two concurrent Register calls for testUser: one returned nil, the other
\* the duplicate error, while a reader holds what Get found
C9_Witness ==
    /\ rOp["w1"] = [kind |-> "Register", name |-> "testUser"]
    /\ rOp["w2"] = [kind |-> "Register", name |-> "testUser"]
    /\ rPc["w1"] = "idle" /\ rPc["w2"] = "idle"
    /\ rRet["w1"].err = NoError
    /\ rRet["w2"].err = AlreadyRegistered("testUser")
    /\ rRival["w2"] = "won"
    /\ rPc["r1"] = "get_unlock"
    /\ rLocal["r1"] = Lookup(registry, "testUser")
    /\ rLocal["r1"].ok

(***************************************************************************)
(* C10: every violation is reported.                                       *)
(***************************************************************************)
\* the value lies below, or above, a bound: the length of a text, the
\* magnitude of a number
Below(fv, bound) ==
    CASE fv.kind = "string" -> Len(fv.s) < bound
      [] fv.kind = "int" -> fv.n < bound
      [] fv.kind = "float64" -> fv.h < 2 * bound
      [] OTHER -> FALSE

Above(fv, bound) ==
    CASE fv.kind = "string" -> Len(fv.s) > bound
      [] fv.kind = "int" -> fv.n > bound
      [] fv.kind = "float64" -> fv.h > 2 * bound
      [] OTHER -> FALSE

\* the rules of the field fs that the value fv violates
ViolatedRules(fs, fv) ==
    {r \in {"required", "enum", "min", "max"} :
        \/ r = "required" /\ fs.Required /\ IsZero(fv)
        \/ /\ r = "enum" /\ Len(fs.Enum) > 0 /\ ~IsZero(fv)
           /\ \A i \in 1..Len(fs.Enum) : stringValue(fv) # fs.Enum[i]
        \/ r = "min" /\ fs.Min # <<>> /\ ~IsZero(fv) /\ Below(fv, fs.Min[1])
        \/ r = "max" /\ fs.Max # <<>> /\ ~IsZero(fv) /\ Above(fv, fs.Max[1])}

Target(model) == IF model.kind = "ptr" THEN model.elem ELSE model

NotNil(fv) == ~(fv.kind = "ptr" /\ fv.isNil)

\* the subdocuments held in the field: the one nested object, or the
\* elements of the sequence, nil pointers left out
Present(fs, fv) ==
    IF fs.IsSlice
    THEN LET there == SelectSeq(fv.elems, NotNil)
         IN [i \in 1..Len(there) |-> Target(there[i])]
    ELSE IF NotNil(fv) THEN <<Target(fv)>> ELSE <<>>

\* the number of violated (field, rule) pairs in the tree under v
RECURSIVE CountViolations(_, _)
RECURSIVE CountIn(_, _)
CountViolations(v, fields) ==
    IF Len(fields) = 0 THEN 0
    ELSE LET fs == fields[1]
             fv == v.fields[fs.Name]
         IN Cardinality(ViolatedRules(fs, fv))
            + (IF Len(fs.SubFields) = 0 THEN 0
               ELSE CountIn(Present(fs, fv), fs.SubFields))
            + CountViolations(v, Tail(fields))

CountIn(subdocs, subFields) ==
    IF Len(subdocs) = 0 THEN 0
    ELSE CountViolations(subdocs[1], subFields) + CountIn(Tail(subdocs), subFields)

\* C10: Validate returns one error for every violated (field, rule) pair of
\* the tree, k errors for k violations; the account with an empty email and
\* age 200 gets exactly two, one of them "value 200 exceeds maximum 120".
C10_EveryViolationReported ==
    vPc = "validated" =>
        /\ Len(vErrs) = CountViolations(Target(vModel), vSchema.Fields)
        /\ (/\ vSchema.ModelName = "Account"
            /\ vModel = StructVal([Email |-> StringVal(<<>>), Age |-> IntVal(200)]))
           => /\ Len(vErrs) = 2
              /\ \E i \in 1..Len(vErrs) :
                    /\ vErrs[i].Field = <<"age">>
                    /\ vErrs[i].Message = <<"value ", 200, " exceeds maximum ", 120>>

(***************************************************************************)
(* C11: bounds and enumerations are not applied to zero values.            *)
(***************************************************************************)
\* the indexes (from 0) of the elements of a sequence that are not nil
PresentAt(fv) == {i \in 0..(Len(fv.elems) - 1) : NotNil(fv.elems[i + 1])}

\* the paths of the fields of the tree under v whose value is zero
RECURSIVE ZeroPaths(_, _, _)
ZeroPaths(v, fields, pathPrefix) ==
    UNION {LET fs == fields[k]
               fv == v.fields[fs.Name]
               fieldPath == FieldPath(pathPrefix, fs.BSONName)
           IN (IF IsZero(fv) THEN {fieldPath} ELSE {})
              \cup (IF Len(fs.SubFields) = 0 THEN {}
                    ELSE IF fs.IsSlice
                    THEN UNION {ZeroPaths(Target(fv.elems[i + 1]), fs.SubFields,
                                          ElemPath(fieldPath, i)) : i \in PresentAt(fv)}
                    ELSE IF NotNil(fv)
                    THEN ZeroPaths(Target(fv), fs.SubFields, fieldPath)
                    ELSE {})
           : k \in 1..Len(fields)}

RequiredMessage == <<"field is required">>

\* C11: min, max and enum are evaluated only on a non-zero value: every
\* error Validate reports on a field whose value is zero is the required
\* error, whatever the bounds of the field are.
C11_ZeroValuePassesBounds ==
    vPc = "validated" =>
        \A i \in 1..Len(vErrs) :
            vErrs[i].Field \in ZeroPaths(Target(vModel), vSchema.Fields, <<>>)
                => vErrs[i].Message = RequiredMessage

\* an order with no status (enum), rating 0 (min=1), no code (min=2) and a
\* first item of quantity 0 (min=1) was validated: none of them is reported,
\* while the missing owner is
C11_Witness ==
    /\ vPc = "validated"
    /\ vSchema.ModelName = "Order"
    /\ LET o == Target(vModel).fields IN
          /\ o.Status = StringVal(<<>>)
          /\ o.Rating = FloatVal(0)
          /\ o.Code = StringVal(<<>>)
          /\ Len(o.Items.elems) > 0
          /\ NotNil(o.Items.elems[1])
          /\ Target(o.Items.elems[1]).fields.Qty = IntVal(0)
          /\ o.Owner = NilPtr
    /\ \E i \in 1..Len(vErrs) :
          vErrs[i] = ValidationError(<<"owner">>, RequiredMessage)
    /\ \A i \in 1..Len(vErrs) :
          vErrs[i].Field \notin {<<"status">>, <<"rating">>, <<"code">>,
                                 <<"items", "[", "0", "]", ".", "qty">>}

(***************************************************************************)
(* C12: the Field of a violation is the path to the offending field.       *)
(***************************************************************************)
\* a step of a path: a wire name, and the index of the element for a step
\* through a sequence (<<>> for none)
Step(name, index) == [name |-> name, index |-> index]

StepText(st) ==
    IF st.index = <<>> THEN <<st.name>>
    ELSE <<st.name, "[">> \o DecimalText(st.index[1]) \o <<"]">>

\* the steps joined by "."
RECURSIVE PathText(_)
PathText(steps) ==
    IF Len(steps) = 0 THEN <<>>
    ELSE IF Len(steps) = 1 THEN StepText(steps[1])
    ELSE PathText(SubSeq(steps, 1, Len(steps) - 1))
         \o <<".">> \o StepText(steps[Len(steps)])

\* the violated (path, rule) pairs of the tree under v, reached by steps
RECURSIVE Violations(_, _, _)
Violations(v, fields, steps) ==
    UNION {LET fs == fields[k]
               fv == v.fields[fs.Name]
               here == Append(steps, Step(fs.BSONName, <<>>))
           IN {[path |-> PathText(here), rule |-> r] : r \in ViolatedRules(fs, fv)}
              \cup (IF Len(fs.SubFields) = 0 THEN {}
                    ELSE IF fs.IsSlice
                    THEN UNION {Violations(Target(fv.elems[i + 1]), fs.SubFields,
                                           Append(steps, Step(fs.BSONName, <<i>>)))
                                   : i \in PresentAt(fv)}
                    ELSE IF NotNil(fv)
                    THEN Violations(Target(fv), fs.SubFields, here)
                    ELSE {})
           : k \in 1..Len(fields)}

\* the rule a message speaks of
MessageRule(msg) ==
    IF msg = RequiredMessage THEN "required"
    ELSE IF msg[3] = "\" is not in enum " THEN "enum"
    ELSE IF msg[3] = " is less than minimum " THEN "min"
    ELSE "max"

\* C12: the Field of every violation is the path to a field that violates
\* the rule of the message: wire names joined by ".", with "[i]" after the
\* name of a sequence field for its element i; a required leaf missing in
\* outers[0].inner is reported as exactly "outers[0].inner.value".
C12_FieldIsExactPath ==
    vPc = "validated" =>
        /\ \A i \in 1..Len(vErrs) :
              [path |-> vErrs[i].Field, rule |-> MessageRule(vErrs[i].Message)]
                  \in Violations(Target(vModel), vSchema.Fields, <<>>)
        /\ (/\ vSchema.ModelName = "Root"
            /\ Len(Target(vModel).fields.Outers.elems) > 0
            /\ Target(vModel).fields.Outers.elems[1].fields.Inner.fields.Value
                  = StringVal(<<>>))
           => \E i \in 1..Len(vErrs) :
                 vErrs[i] = ValidationError(
                     <<"outers", "[", "0", "]", ".", "inner", ".", "value">>,
                     RequiredMessage)

\* a root whose elements 0 and 1 both lack the value, validated: two errors,
\* on outers[0].inner.value and on outers[1].inner.value
C12_Witness ==
    /\ vPc = "validated"
    /\ vSchema.ModelName = "Root"
    /\ Len(vErrs) = 2
    /\ vErrs[1].Field = <<"outers", "[", "0", "]", ".", "inner", ".", "value">>
    /\ vErrs[2].Field = <<"outers", "[", "1", "]", ".", "inner", ".", "value">>

(***************************************************************************)
(* C13, C14: applyDefaults.                                                *)
(***************************************************************************)
\* a value and what it became have the same shape: nil stays nil, a
\* sequence keeps its length
SameShape(bv, av) ==
    /\ bv.kind = av.kind
    /\ bv.kind = "ptr" => bv.isNil = av.isNil
    /\ bv.kind = "slice" => bv.isNil = av.isNil /\ Len(bv.elems) = Len(av.elems)

\* b is the struct before the call and a the struct after it: a field
\* without subdocuments differs only if it carries a default and was zero,
\* and so on inside every subdocument
RECURSIVE OnlyZeroDefaultedChanged(_, _, _)
OnlyZeroDefaultedChanged(b, a, fields) ==
    /\ DOMAIN a.fields = DOMAIN b.fields
    /\ \A name \in DOMAIN b.fields :
          (\A k \in 1..Len(fields) : fields[k].Name # name)
              => a.fields[name] = b.fields[name]
    /\ \A k \in 1..Len(fields) :
          LET field == fields[k]
              bv == b.fields[field.Name]
              av == a.fields[field.Name]
          IN IF Len(field.SubFields) = 0
             THEN av # bv => field.Default # <<>> /\ IsZero(bv)
             ELSE /\ SameShape(bv, av)
                  /\ IF field.IsSlice
                     THEN \A i \in 1..Len(bv.elems) :
                             /\ SameShape(bv.elems[i], av.elems[i])
                             /\ NotNil(bv.elems[i])
                                   => OnlyZeroDefaultedChanged(
                                          Target(bv.elems[i]), Target(av.elems[i]),
                                          field.SubFields)
                     ELSE NotNil(bv)
                             => OnlyZeroDefaultedChanged(Target(bv), Target(av),
                                                         field.SubFields)

\* C13: applyDefaults changes a field only if the field carries a non-empty
\* default and its value was zero; every non-zero field and every field
\* without a default has the value it had, at every nesting level, whether
\* the call returns an error or not.
C13_OnlyZeroDefaultedFieldsChange ==
    dPc = "done" =>
        /\ dModel.kind = dBefore.kind
        /\ OnlyZeroDefaultedChanged(Target(dBefore), Target(dModel), dSchema.Fields)

\* a container whose element 0 had no status and whose element 1 had status
\* done, with an address without zip: after the call element 0 is pending,
\* element 1 still done, the zip 00000
C13_Witness ==
    /\ dPc = "done"
    /\ dErr = NoError
    /\ dSchema.ModelName = "Container"
    /\ Len(Target(dBefore).fields.Items.elems) = 2
    /\ Target(dBefore).fields.Items.elems[1].fields.Status = StringVal(<<>>)
    /\ Target(dBefore).fields.Items.elems[2].fields.Status = StringVal(<<"done">>)
    /\ Target(dBefore).fields.Address.fields.Zip = StringVal(<<>>)
    /\ Target(dModel).fields.Items.elems[1].fields.Status = StringVal(<<"pending">>)
    /\ Target(dModel).fields.Items.elems[2].fields.Status = StringVal(<<"done">>)
    /\ Target(dModel).fields.Address.fields.Zip = StringVal(<<"00000">>)

\* the text s is no value of the kind: no boolean, no integer of the width
\* of the kind, no number; nothing but text and these kinds takes a default
Unparsable(kind, s) ==
    CASE kind = "string" -> FALSE
      [] kind = "bool" -> ~ParseBool(s).ok
      [] kind = "int" -> ~ParseInt(s).ok
      [] kind = "int8" -> ~ParseInt(s).ok \/ ParseInt(s).n \notin -128..127
      [] kind = "float64" -> ~ParseFloat(s).ok
      [] OTHER -> TRUE

\* some zero-valued field of the tree under v has a default that cannot be
\* parsed for its kind
RECURSIVE HasBadDefault(_, _)
HasBadDefault(v, fields) ==
    \E k \in 1..Len(fields) :
        LET field == fields[k]
            fv == v.fields[field.Name]
        IN \/ /\ field.Default # <<>>
              /\ IsZero(fv)
              /\ Unparsable(fv.kind, field.Default)
           \/ /\ Len(field.SubFields) > 0
              /\ IF field.IsSlice
                 THEN \E i \in PresentAt(fv) :
                         HasBadDefault(Target(fv.elems[i + 1]), field.SubFields)
                 ELSE NotNil(fv) /\ HasBadDefault(Target(fv), field.SubFields)

\* C14: if a zero-valued field that applyDefaults reaches has a default that
\* cannot be parsed for the kind of the field, or the kind takes no default,
\* applyDefaults returns a non-nil error.
C14_UnparsableDefaultIsAnError ==
    (/\ dPc = "done"
     /\ dBefore.kind = "ptr"
     /\ HasBadDefault(Target(dBefore), dSchema.Fields))
        => dErr # NoError

(***************************************************************************)
(* C15: defaults at creation, never on read.                               *)
(***************************************************************************)
\* the model m, given to a hook, to Validate or to the driver, holds the
\* default in every field that carries one and was zero in the model as
\* passed
HoldsDefaults(m, passed, schema) ==
    \A k \in 1..Len(schema.Fields) :
        LET fs == schema.Fields[k] IN
        (fs.Default # <<>> /\ IsZero(passed.fields[fs.Name]))
            => m.fields[fs.Name] = StringVal(fs.Default)

\* what Decode makes of the stored documents, nothing filled in
ReadsAsStored ==
    /\ cOp = "Find" /\ cErr = NoError
          => cFound = [i \in 1..Len(cStored) |-> Decode(cStored[i], CrudUserSchema)]
    /\ cOp = "FindOne" /\ cErr = NoError
          => \E i \in 1..Len(cStored) :
                /\ cFound = <<Decode(cStored[i], CrudUserSchema)>>
                /\ "role" \notin DOMAIN cStored[i]
                      => cFound[1].fields.Role = StringVal(<<>>)

\* C15: Create and CreateMany apply the defaults of the schema to the
\* zero-valued fields before the BeforeCreate hook and before validation, so
\* that the hook, Validate and the driver are given the default; FindOne and
\* Find return what is stored and apply no default.
C15_DefaultsBeforeHookAndValidation ==
    /\ \A i \in 1..Len(cSeen) :
          HoldsDefaults(cSeen[i].model, cInput[cSeen[i].idx], CrudUserSchema)
    /\ cPc = "idle" => ReadsAsStored

(***************************************************************************)
(* C16: the type-union rules of resolveType.                               *)
(***************************************************************************)
IntegerTypes == {"int32", "int64"}

\* the kinds left by the union rules: null removed; int32 dropped beside
\* int64; every integer kind dropped beside float64
KindsLeft(types) ==
    {t \in types \ {"null"} :
        /\ t = "int32" => "int64" \notin types
        /\ t \in IntegerTypes => "float64" \notin types}

\* C16: resolveType returns the type the union rules give: with exactly one
\* kind left that kind, nullable iff null was observed, and the generic type
\* with no kind or several kinds left; {int32, int64, null} gives nullable
\* int64 and {int32, double} gives non-nullable double.
C16_ResolveTypeFollowsUnionRules ==
    rtPc = "done" =>
        /\ \A t \in GoTypes :
              KindsLeft(rtTypes) = {t}
                  => rtResult = IF "null" \in rtTypes THEN <<"*", t>> ELSE <<t>>
        /\ Cardinality(KindsLeft(rtTypes)) # 1 => rtResult = <<Interface>>
        /\ rtTypes = {"int32", "int64", "null"} => rtResult = <<"*", "int64">>
        /\ rtTypes = {"int32", "float64"} => rtResult = <<"float64">>

\* {int32, int64, float64, null} was resolved, to nullable float64
C16_Witness ==
    /\ rtPc = "done"
    /\ rtTypes = {"int32", "int64", "float64", "null"}
    /\ rtResult = <<"*", "float64">>

(***************************************************************************)
(* C17: required fields and the order of the fields discovered.            *)
(***************************************************************************)
\* the documents the cursor gave that decoded: the documents sampled
Sampled ==
    SelectSeq(SubSeq(sColl, 1, Min2(Len(sColl), sSampleSize)), LAMBDA d : d.ok)

KeysOf(doc) == {doc.elems[i].Key : i \in 1..Len(doc.elems)}

\* the keys of the sampled documents, in the order met
SampledKeys ==
    FlattenKeys([i \in 1..Len(Sampled) |->
                    [j \in 1..Len(Sampled[i].elems) |-> Sampled[i].elems[j].Key]])

\* the positions at which a key is met for the first time
FirstMeetings(keys) ==
    {i \in 1..Len(keys) : \A j \in 1..(i - 1) : keys[j] # keys[i]}

\* the keys, each once, in the order of their first meeting
FirstSeenOrder(keys) ==
    [k \in 1..Cardinality(FirstMeetings(keys)) |->
        keys[CHOOSE i \in FirstMeetings(keys) :
                Cardinality({j \in FirstMeetings(keys) : j < i}) = k - 1]]

\* C17: the fields reported are the keys of the sampled documents, once
\* each, in first-seen order; a field is marked IsRequired iff it appears in
\* every sampled document; with no document sampled no field is reported.
C17_RequiredIffInEverySampledDocument ==
    (sPc = "done" /\ sErr = NoError) =>
        /\ [i \in 1..Len(sFields) |-> sFields[i].BSONName] = FirstSeenOrder(SampledKeys)
        /\ \A i \in 1..Len(sFields) :
              sFields[i].IsRequired
                  <=> \A d \in 1..Len(Sampled) : sFields[i].BSONName \in KeysOf(Sampled[d])
        /\ Len(Sampled) = 0 => sFields = <<>>

\* two documents sampled, {b, a} then {a}: b is reported first and is not
\* required, a is required
C17_Witness ==
    /\ sPc = "done"
    /\ sErr = NoError
    /\ Len(Sampled) = 2
    /\ Len(sFields) = 2
    /\ sFields[1].BSONName = "b" /\ ~sFields[1].IsRequired
    /\ sFields[2].BSONName = "a" /\ sFields[2].IsRequired

(***************************************************************************)
(* C18: the order and the repetition of the tokens of a tag.               *)
(***************************************************************************)
\* the key=value tokens of a tag, as pairs of key and value
KeyValues(tag) ==
    LET parts == Split(tag, ",") IN
    {<<Cut(TrimSpace(parts[i]), "=").before, Cut(TrimSpace(parts[i]), "=").after>> :
        i \in {j \in 1..Len(parts) : Cut(TrimSpace(parts[j]), "=").found}}

\* no key is given two different values
OneValuePerKey(tag) ==
    \A p, q \in KeyValues(tag) : p[1] = q[1] => p[2] = q[2]

Rearranged == tPc \in {"reordered", "duplicated"}

\* C18 as stated: any permutation of the comma-separated tokens of a tag
\* and any duplication of tokens produces the same attribute record.
C18_AnyTagOrderAndDuplicateTolerant ==
    Rearranged => tFs2 = tFs

\* C18: for a tag in which no key is given two different values, any
\* permutation of its comma-separated tokens and any duplication of tokens
\* produces the same attribute record.
C18_OrderAndDuplicateTolerant ==
    (Rearranged /\ OneValuePerKey(tTag)) => tFs2 = tFs

\* "required,required" after "required", both with Required set
C18_Witness ==
    /\ tPc = "duplicated"
    /\ tTag = <<"required">>
    /\ tTag2 = <<"required", ",", "required">>
    /\ tFs.Required /\ tFs2.Required

(***************************************************************************)
(* C19: registering a type that refers to itself.                          *)
(***************************************************************************)
\* the struct types the type t mentions
RECURSIVE Mentions(_)
Mentions(t) ==
    IF t.kind = "struct" THEN {t.name}
    ELSE IF t.kind \in {"ptr", "slice"} THEN Mentions(t.elem)
    ELSE {}

FieldTypes(decls, name) ==
    UNION {Mentions(decls[name][i].Type) : i \in 1..Len(decls[name])}

\* Node holds a field of its own type, or a field of a type that holds one
SelfReferential(decls) ==
    \/ "Node" \in FieldTypes(decls, "Node")
    \/ \E n \in FieldTypes(decls, "Node") : "Node" \in FieldTypes(decls, n)

RegistersSelfReferential ==
    /\ kPc = "start"
    /\ Deref(kModel).kind = "struct"
    /\ SelfReferential(kDecls)

\* the fields of the schema whose type is Node, *Node or []Node
SelfOccurrences ==
    {i \in 1..Len(kSchema.Fields) :
        kSchema.Fields[i].Type \in {TypeName(StructType("Node")),
                                    TypeName(PtrType(StructType("Node"))),
                                    TypeName(SliceType(StructType("Node")))}}

RegisteredFinite ==
    /\ kPc = "done"
    /\ kErr = NoError
    /\ \A i \in SelfOccurrences : kSchema.Fields[i].SubFields = <<>>

\* C19: registering a self-referential type (a struct holding a child or an
\* embedded field of its own type) terminates and produces a finite schema
\* in which the self-referential occurrence has an empty child list.
C19_SelfReferentialRegisterTerminates ==
    RegistersSelfReferential ~> RegisteredFinite

(***************************************************************************)
(* C20: the uniqueness of an index that ExecuteMigration creates.          *)
(***************************************************************************)
\* some registered schema has a unique field whose <bsonName>_1 is the name,
\* or a unique compound index whose canonical name is the name
MarkedUniqueIn(reg, indexName) ==
    \E n \in DOMAIN reg :
        \/ \E i \in 1..Len(reg[n].Fields) :
              /\ reg[n].Fields[i].Unique
              /\ reg[n].Fields[i].BSONName \o <<"_", "1">> = indexName
        \/ \E i \in 1..Len(reg[n].CompoundIndexes) :
              /\ reg[n].CompoundIndexes[i].Unique
              /\ JoinUnderscore(NameParts(reg[n].CompoundIndexes[i].Fields)) = indexName

\* the step is a create action of the plan that the store accepted
CreateExecuted ==
    /\ mPc = "executing"
    /\ actionIdx <= Len(plan)
    /\ plan[actionIdx].Type = "ActionCreateIndex"
    /\ Len(calls') = Len(calls) + 1
    /\ calls'[Len(calls')].ok

\* the indexes of the action's collection, after the step, on the keys the
\* action's index name stands for
CreatedIndexes ==
    {ix \in db'[plan[actionIdx].Collection] :
        ix.keys = buildIndexKeys(plan[actionIdx].IndexName)}

DriftSample ==
    LET all == gDocsAtCall[gSchema.Collection] IN
    IF gFindOk
    THEN [i \in 1..(IF Len(all) < 100 THEN Len(all) ELSE 100) |-> all[i]]
    ELSE <<>>

WireNames == {gSchema.Fields[i].BSONName : i \in 1..Len(gSchema.Fields)}

\* the places of the sampled documents where the key k stands
PlacesOf(k) ==
    {p \in (1..Len(DriftSample)) \X (1..MaxDriftKeys) :
        p[2] <= Len(DriftSample[p[1]]) /\ DriftSample[p[1]][p[2]] = k}

Earlier(p, q) == p[1] < q[1] \/ (p[1] = q[1] /\ p[2] < q[2])

\* k is met before h
SeenBefore(k, h) ==
    \E p \in PlacesOf(k) : \A q \in PlacesOf(h) : Earlier(p, q)

DriftNames == [i \in 1..Len(gDrifts) |-> gDrifts[i].Field]

\* C21: DetectDrift returns exactly one DriftError per distinct top-level
\* wire field name that occurs in some sampled document (at most 100
\* sampled) and is not a wire name of the schema's fields, in first-seen
\* order; no name twice, no schema field, and no write to the store.
C21_OneDriftPerUnknownName ==
    gPc = "done" =>
        /\ {DriftNames[i] : i \in 1..Len(DriftNames)}
              = {k \in DriftKeys \cup {<<"late">>} : PlacesOf(k) # {}} \ WireNames
        /\ \A i, j \in 1..Len(DriftNames) : DriftNames[i] = DriftNames[j] => i = j
        /\ \A i, j \in 1..Len(DriftNames) :
              i < j => SeenBefore(DriftNames[i], DriftNames[j])
        /\ \A i \in 1..Len(gDrifts) : gDrifts[i].Collection = gSchema.Collection
        /\ docs = gDocsAtCall
        /\ db = [c \in Colls |-> {}]

\* of 101 documents the hundredth brings nick and the last one late: nick
\* is reported and late is not
C21_Witness ==
    /\ gPc = "done"
    /\ Len(gDocsAtCall[gSchema.Collection]) = 101
    /\ DriftNames = << <<"nick">> >>

(***************************************************************************)
(* C22: a context cancelled in the middle of a run.                        *)
(***************************************************************************)
\* the store calls made since the cancellation; each of them failed
IssuedSinceCancel == failures - ctxAt.failures

CreatesSinceCancel == Len(calls) - ctxAt.calls

ErrorsSinceCancel == Len(result.Errors) - ctxAt.errors

\* the actions the loop of ExecuteMigration had not reached that make a
\* store call: the creates, and the drops when drops are allowed
StoreActionsLeft ==
    {i \in ctxAt.actionIdx..Len(plan) :
        \/ plan[i].Type = "ActionCreateIndex"
        \/ plan[i].Type = "ActionDropIndex" /\ opts.DropExtras}

Executes == mOp \in {"ExecuteMigration", "Migrate"}

\* C22 as stated: after the cancellation the call in flight surfaces an
\* error, no further store call is issued, and what was completed stays.
C22_CancellationStopsStoreCalls ==
    ctxDone =>
        /\ IssuedSinceCancel <= 1
        /\ IssuedSinceCancel = 1 => (ErrorsSinceCancel = 1 \/ retErr # NoError)
        /\ db = ctxAt.db

\* C22: after the cancellation every index operation completed before it
\* stays in effect and no store call succeeds.  Enforce makes at most one
\* more index call and returns its error at once; when no drift is sampled
\* that is its only store call.  ExecuteMigration goes on: it makes the
\* store call of every create and permitted drop left in the plan, records
\* the error of each in result.Errors and returns a nil error.
C22_CancellationIsPerCall ==
    ctxDone =>
        /\ db = ctxAt.db
        /\ mOp = "Enforce" =>
              /\ CreatesSinceCancel <= 1
              /\ CreatesSinceCancel = 1 => (mPc = "idle" /\ retErr # NoError)
              /\ opts.DriftPolicy = "DriftIgnore" =>
                    /\ IssuedSinceCancel <= 1
                    /\ IssuedSinceCancel = 1 => (mPc = "idle" /\ retErr # NoError)
        /\ Executes =>
              /\ ErrorsSinceCancel = IssuedSinceCancel
              /\ mPc = "idle" =>
                    /\ retErr = NoError
                    /\ IssuedSinceCancel = Cardinality(StoreActionsLeft)

\* ExecuteMigration has returned after two store calls made with the
\* cancelled context, both recorded as errors
C22_Witness ==
    /\ ctxDone
    /\ mOp = "ExecuteMigration"
    /\ mPc = "idle"
    /\ IssuedSinceCancel = 2
    /\ ErrorsSinceCancel = 2

(***************************************************************************)
(* C23: the order in which runMiddleware runs the chain.                   *)
(***************************************************************************)
\* the numbers of S in increasing order, that is in registration order
RECURSIVE InOrder(_)
InOrder(S) ==
    IF S = {} THEN <<>>
    ELSE LET least == CHOOSE x \in S : \A y \in S : x <= y
         IN <<least>> \o InOrder(S \ {least})

GlobalIds == {globalMW[i] : i \in 1..Len(globalMW)}

ModelIds(n) ==
    IF n \in DOMAIN modelMW THEN {modelMW[n][i] : i \in 1..Len(modelMW[n])} ELSE {}

\* every global middleware, then every middleware of the model
ExpectedChain == InOrder(GlobalIds) \o InOrder(ModelIds(wModelName))

\* the place of the first middleware that does not call next, or one past
\* the chain
StopsAt ==
    LET c == ExpectedChain IN
    IF \E i \in 1..Len(c) : wKinds[c[i]] = "abort"
    THEN CHOOSE i \in 1..Len(c) :
            wKinds[c[i]] = "abort" /\ \A j \in 1..(i - 1) : wKinds[c[j]] # "abort"
    ELSE Len(c) + 1

Aborted == StopsAt <= Len(ExpectedChain)

\* the middlewares that called next
Callers == SubSeq(ExpectedChain, 1, StopsAt - 1)

ExpectedTrace ==
    LET c == ExpectedChain
        n == Len(Callers)
    IN [i \in 1..n |-> <<"before", c[i]>>]
       \o (IF Aborted THEN << <<"before", c[StopsAt]>> >> ELSE << <<"operation", 0>> >>)
       \o [i \in 1..n |-> <<"after", c[n + 1 - i]>>]

\* C23 as stated: globals in registration order, then the middlewares of
\* the model in registration order, then the operation, the code after
\* next in reverse order; nothing runs past a middleware that does not call
\* next, and the error of that middleware is the result.
C23_ChainOrderAndAbortResult ==
    wPc = "done" =>
        /\ wTrace = ExpectedTrace
        /\ Aborted => wRet = ErrorOf(ExpectedChain[StopsAt])

\* C23: the same order; the error of a middleware that does not call next
\* is what next returns to the middleware before it, and is the result when
\* every middleware before it returns what next returned.
C23_ChainOrderAndAbortReturn ==
    wPc = "done" =>
        /\ wTrace = ExpectedTrace
        /\ (Aborted /\ \A i \in 1..Len(Callers) : wKinds[Callers[i]] = "pass")
              => wRet = ErrorOf(ExpectedChain[StopsAt])
        /\ (\E i \in 1..Len(Callers) : wKinds[Callers[i]] = "swallow")
              => wRet = NoError
        /\ (~Aborted /\ \A i \in 1..Len(Callers) : wKinds[Callers[i]] = "pass")
              => wRet = wFnErr

\* a middleware of the model registered first, a global one second and a
\* global one third that does not call next: the second, the third, the
\* second again; the result is the error of the third
C23_Witness ==
    /\ wPc = "done"
    /\ wKinds = <<"pass", "pass", "abort">>
    /\ globalMW = <<2, 3>>
    /\ wModelName \in DOMAIN modelMW
    /\ modelMW[wModelName] = <<1>>
    /\ wTrace = << <<"before", 2>>, <<"before", 3>>, <<"after", 2>> >>
    /\ wRet = ErrorOf(3)

(***************************************************************************)
(* C24: a CreateMany that fails before the write inserts nothing.          *)
(***************************************************************************)
\* the steps of the call so far that gave a model to the driver
Inserts == SelectSeq(cSeen, LAMBDA e : e.step = "Insert")

\* CreateMany returned the error of Validate or of a BeforeCreate hook
FailedBeforeWrite ==
    /\ cOp = "CreateMany"
    /\ cPc = "idle"
    /\ \/ /\ Len(cErr) = 2
          /\ cErr[1] = "validation failed"
       \/ /\ cErr = HookFailed
          /\ Len(cSeen) > 0
          /\ cSeen[Len(cSeen)].step = "BeforeCreate"

\* C24: in CreateMany, if any model of the batch fails validation (or its
\* BeforeCreate hook fails), the operation is aborted before the database
\* write: InsertMany is never called and no document of the batch, the
\* valid ones earlier in the slice included, is inserted.
C24_FailedBatchWritesNothing ==
    FailedBeforeWrite =>
        /\ Inserts = <<>>
        /\ cStored = cStoredAtCall

\* a batch of two whose first model is valid and whose second is not
C24_Witness ==
    /\ FailedBeforeWrite
    /\ Len(cInput) = 2
    /\ cIdx = 2
    /\ Len(Validate(PtrTo(cModels[1]), CrudUserSchema)) = 0
    /\ Len(cErr) = 2
    /\ cStored = cStoredAtCall

(***************************************************************************)
(* C25: the order of the steps of Update.                                  *)
(***************************************************************************)
\* docs/hooks.md, Execution Order, for Update
DocumentedOrder ==
    <<"Fetch", "BeforeSave", "ImmutableCheck", "Validate", "UpdatedAt",
      "ReplaceOne", "AfterSave">>

PlaceOf(step) == CHOOSE k \in 1..Len(DocumentedOrder) : DocumentedOrder[k] = step

\* the call returned an error before it reached ReplaceOne
FailedBeforeReplace ==
    /\ uPc = "idle"
    /\ uErr # NoError
    /\ \A i \in 1..Len(uSteps) : uSteps[i] # "ReplaceOne"

\* C25: Update runs its steps in the documented order: fetch existing
\* document, BeforeSave hook, immutable check, Validate, set UpdatedAt,
\* ReplaceOne, AfterSave hook; a failure at any step prevents all later
\* steps, so no replace is issued after a hook, immutable or validation
\* failure.
C25_UpdateInDocumentedOrder ==
    /\ \A i, j \in 1..Len(uSteps) :
          i < j => PlaceOf(uSteps[i]) < PlaceOf(uSteps[j])
    /\ FailedBeforeReplace => uStored = uStoredAtCall
    /\ (uPc = "idle" /\ uErr # NoError /\ Len(uSteps) > 0)
          => uSteps[Len(uSteps)] \in {"Fetch", "BeforeSave", "ImmutableCheck",
                                      "Validate", "ReplaceOne", "AfterSave"}

(***************************************************************************)
(* C26: a nested single object that is absent.                             *)
(***************************************************************************)
\* the path lies below the path of a field
Under(path, fieldPath) ==
    /\ Len(path) > Len(fieldPath)
    /\ SubSeq(path, 1, Len(fieldPath)) = fieldPath

ErrorsUnder(fieldPath) == SelectSeq(vErrs, LAMBDA e : Under(e.Field, fieldPath))
ErrorsAt(fieldPath) == SelectSeq(vErrs, LAMBDA e : e.Field = fieldPath)

\* a nil pointer, or a struct that is the zero value
Absent(fv) ==
    \/ fv.kind = "ptr" /\ fv.isNil
    \/ fv.kind = "struct" /\ IsZero(fv)

\* the fields of the schema that hold one subdocument
SingleObjects ==
    {f \in {vSchema.Fields[k] : k \in 1..Len(vSchema.Fields)} :
        Len(f.SubFields) > 0 /\ ~f.IsSlice}

\* C26 as stated: for a nested single-object field whose value is absent (a
\* nil pointer or the zero value of the struct), Validate skips the inner
\* fields and reports nothing under that field's path; only the parent
\* field's own required flag can report the missing subdocument.
C26_AbsentSubdocumentSkipped ==
    vPc = "validated" =>
        \A f \in SingleObjects :
            Absent(Target(vModel).fields[f.Name])
                => ErrorsUnder(<<f.BSONName>>) = <<>>

\* C26, amended: a nested single object held by a nil pointer is skipped:
\* nothing is reported under its path, and its absence is reported by the
\* parent field's own required flag alone.  A nested struct held by value
\* is validated also when it is the zero value: its missing required inner
\* fields are reported under its path.
C26_NilPointerSkippedZeroStructValidated ==
    (vPc = "validated" /\ vSchema.ModelName = "Order") =>
        LET m == Target(vModel) IN
        /\ m.fields.Owner.isNil
              => /\ ErrorsUnder(<<"owner">>) = <<>>
                 /\ ErrorsAt(<<"owner">>)
                       = << ValidationError(<<"owner">>, RequiredMessage) >>
        /\ IsZero(m.fields.Address)
              => /\ ErrorsUnder(<<"address">>)
                       = << ValidationError(<<"address", ".", "city">>,
                                            RequiredMessage) >>
                 /\ ErrorsAt(<<"address">>) = <<>>

\* an order with a nil owner and a zero address, validated
C26_Witness ==
    /\ vPc = "validated"
    /\ vSchema.ModelName = "Order"
    /\ Target(vModel).fields.Owner.isNil
    /\ IsZero(Target(vModel).fields.Address)
    /\ ErrorsUnder(<<"owner">>) = <<>>
    /\ Len(ErrorsUnder(<<"address">>)) = 1

(***************************************************************************)
(* C27: reconciliation converges.                                          *)
(***************************************************************************)
\* a PlanMigration that returned, made right after a run with DropExtras
\* in which no store call failed
PlannedAfterCleanRun ==
    /\ mOp = "PlanMigration"
    /\ mPc = "idle"
    /\ retErr = NoError
    /\ prev.op \in {"ExecuteMigration", "Migrate"}
    /\ prev.err = NoError
    /\ prev.errors = 0
    /\ prev.opts.DropExtras
    /\ ~prev.opts.DryRun

\* C27: after PlanMigration followed by ExecuteMigration with DropExtras in
\* which every store call succeeds, a fresh PlanMigration over the same
\* schemas and the resulting database contains no create-index and no
\* drop-index action, for every registered schema set, field names with
\* underscores or digit tokens included.
C27_ReconciliationConverges == PlannedAfterCleanRun => Changes(plan) = {}

(***************************************************************************)
(* C28: the arithmetic of the MigrationResult.                             *)
(***************************************************************************)
\* the actions ExecuteMigration has gone through
Handled == SubSeq(plan, 1, actionIdx - 1)

HandledOf(types) == SelectSeq(Handled, LAMBDA a : a.Type \in types)

\* the drops that were skipped: all of them without DropExtras, else none
SkippedDrops ==
    IF opts.DropExtras THEN 0 ELSE Len(HandledOf({"ActionDropIndex"}))

\* ExecuteMigration is in its loop or has returned, alone or inside Migrate
InExecuteMigration ==
    /\ mOp \in {"ExecuteMigration", "Migrate"}
    /\ ~opts.DryRun
    /\ \/ mPc = "executing"
       \/ mPc = "idle" /\ retErr = NoError

\* C28: for every plan and every pattern of store failures the result of
\* ExecuteMigration has Executed + Skipped + len(Errors) = the number of
\* create and drop actions of the plan, len(Warnings) = the number of
\* skipped drops + the number of field-drift actions; a field-drift action
\* causes no store call and changes none of Executed, Skipped, Errors.
C28_ResultCountsThePlan ==
    InExecuteMigration =>
        /\ mPc = "idle" => actionIdx = Len(plan) + 1
        /\ result.Executed + result.Skipped + Len(result.Errors)
              = Len(HandledOf({"ActionCreateIndex", "ActionDropIndex"}))
        /\ result.Skipped = SkippedDrops
        /\ Len(result.Warnings)
              = SkippedDrops + Len(HandledOf({"ActionFieldDrift"}))
        /\ Len(calls) = result.Executed + Len(result.Errors)

\* a plan with a create, a drop and two drifts, executed without DropExtras,
\* the create failing
C28_Witness ==
    /\ InExecuteMigration
    /\ mPc = "idle"
    /\ ~opts.DropExtras
    /\ Len(HandledOf({"ActionCreateIndex"})) = 1
    /\ Len(HandledOf({"ActionFieldDrift"})) = 2
    /\ result.Executed = 0
    /\ result.Skipped = 1
    /\ Len(result.Errors) = 1
    /\ Len(result.Warnings) = 3

(***************************************************************************)
(* C29: uniqueness comes from the schema of the index's own collection.    *)
(***************************************************************************)
\* the registered schemas whose collection is coll
SchemasOf(coll) ==
    [n \in {k \in DOMAIN registry : registry[k].Collection = coll} |-> registry[n]]

\* C29: an index created by ExecuteMigration on a collection is unique iff
\* the schema registered for that collection declares it unique (a unique
\* field or a unique compound index of that schema); a unique declaration
\* of a same-named field or index in a schema of another collection has no
\* effect on it, as in Enforce.
C29_UniqueAsOwnSchema ==
    [][CreateExecuted =>
          \A ix \in CreatedIndexes :
              ix.unique <=> MarkedUniqueIn(SchemasOf(plan[actionIdx].Collection),
                                           plan[actionIdx].IndexName)]_vars

(***************************************************************************)
(* C30: applyDefaults does not roll back.                                  *)
(***************************************************************************)
\* what the traversal meets at one field: the field, the kind of its value,
\* whether the value is zero, and the value itself if it has no subdocuments
Place(field, fv) ==
    [field |-> field, kind |-> fv.kind, zero |-> IsZero(fv),
     val |-> IF Len(field.SubFields) = 0 THEN fv ELSE [kind |-> fv.kind]]

\* the places of the tree under v in traversal order: the fields in
\* declaration order, each before what lies inside it, the elements of a
\* sequence in index order
RECURSIVE Places(_, _)
RECURSIVE ElemPlaces(_, _, _)
Places(v, fields) ==
    IF Len(fields) = 0 THEN <<>>
    ELSE LET field == fields[1]
             fv == v.fields[field.Name]
         IN << Place(field, fv) >>
            \o (IF Len(field.SubFields) = 0 THEN <<>>
                ELSE IF field.IsSlice THEN ElemPlaces(fv.elems, 1, field.SubFields)
                ELSE IF NotNil(fv) THEN Places(Target(fv), field.SubFields)
                ELSE <<>>)
            \o Places(v, Tail(fields))

ElemPlaces(elems, i, subFields) ==
    IF i > Len(elems) THEN <<>>
    ELSE (IF NotNil(elems[i]) THEN Places(Target(elems[i]), subFields) ELSE <<>>)
         \o ElemPlaces(elems, i + 1, subFields)

PlacesBefore == Places(Target(dBefore), dSchema.Fields)
PlacesAfter == Places(Target(dModel), dSchema.Fields)

\* the place carries a default and its value was zero
DefaultDue(p) == p.field.Default # <<>> /\ p.zero

\* the first place whose default applyDefaults could not set: the one its
\* error names
FailingPlace ==
    CHOOSE k \in 1..Len(PlacesBefore) :
        /\ DefaultDue(PlacesBefore[k])
        /\ dErr = DefaultError(PlacesBefore[k].field,
                               setFieldFromString(PlacesBefore[k].val,
                                                  PlacesBefore[k].field.Default).err)
        /\ \A j \in 1..(k - 1) :
              DefaultDue(PlacesBefore[j])
                  => setFieldFromString(PlacesBefore[j].val,
                                        PlacesBefore[j].field.Default).err = NoError

applyDefaultsFailed == dPc = "done" /\ dBefore.kind = "ptr" /\ dErr # NoError

\* C30: applyDefaults does not roll back on failure: when it returns an
\* error for an unparsable default, every default already assigned to
\* fields earlier in traversal order (declaration order, depth-first)
\* remains assigned on the instance, and no field after the failing one is
\* touched.
C30_NoRollbackOnFailure ==
    applyDefaultsFailed =>
        /\ Len(PlacesAfter) = Len(PlacesBefore)
        /\ \E k \in 1..Len(PlacesBefore) : k = FailingPlace
        /\ \A i \in 1..Len(PlacesBefore) :
              LET b == PlacesBefore[i]
                  a == PlacesAfter[i]
              IN IF i < FailingPlace
                 THEN Len(b.field.SubFields) = 0
                         => IF DefaultDue(b)
                            THEN /\ ~a.zero
                                 /\ a.val = setFieldFromString(b.val, b.field.Default).val
                            ELSE a.val = b.val
                 ELSE a = b

\* Name was empty and holds its default, Age has the default "no" and is
\* still 0, Score after it is still 0 though its default can be parsed
C30_Witness ==
    /\ applyDefaultsFailed
    /\ dSchema.ModelName = "testDefaults"
    /\ Target(dBefore).fields.Name = StringVal(<<>>)
    /\ Target(dModel).fields.Name = StringVal(<<"anonymous">>)
    /\ dSchema.Fields[2].Default = <<"n", "o">>
    /\ Target(dModel).fields.Age = IntVal(0)
    /\ dSchema.Fields[3].Default = <<"9", ".", "5">>
    /\ Target(dModel).fields.Score = FloatVal(0)

====
